---- MODULE Spec2Model ----
(***************************************************************************)
(* Text analytics suite of the voice-notes application: extractive         *)
(* summarisation, sentiment scoring, filler-word removal, word cloud,      *)
(* semantic search, automatic tagging and vocabulary insights.  Texts are  *)
(* TLA+ strings (sequences of characters); every analyzer is an operator   *)
(* computed the way the TypeScript computes it, and each analyzer has a    *)
(* small specification that draws its inputs from a bounded set and        *)
(* applies it; one more specification calls the analyzers repeatedly on    *)
(* one transcript.  The module also covers the smart folders, the          *)
(* semantic index, and the offline upload queue, whose functions are       *)
(* split at their awaits into a read step and a write step on the stored   *)
(* queue.                                                                  *)
(*                                                                         *)
(* Numbers.  TLA+ has integers only.  Lexicon weights and thresholds are   *)
(* kept as exact rationals over a fixed denominator that is named where    *)
(* it is used; the only irrational quantity (the cosine similarity of the  *)
(* summariser) is kept in fixed point.                                     *)
(***************************************************************************)
EXTENDS Integers, Sequences, FiniteSets, TLC

VARIABLES
    sumText, sumTarget, sumOut,          \* generateSummary: arguments, result
    senText, senOut,                     \* analyzeSentiment: argument, result
    filText, filOut,                     \* analyzeFillerWords: argument, result
    expA, expB, expOutA, expOutB,        \* getSemanticExpansions of two terms
    srNote, srTokens, srPhase, srPos, srTag, srTotal, srTerms, srMatch,
                                         \* the per-note loop of semanticSearch
    ssNotes, ssQuery, ssThreshold, ssOut,\* semanticSearch: arguments, result
    wcText, wcLang, wcMax, wcOut, wcEnough, \* word cloud: arguments, results
    tagText, tagOut,                     \* generateTags: argument, result
    vocNotes, vocOut,                    \* analyzeVocabulary: argument, result
    repText, repNow, repOut,             \* repeated calls on one transcript:
                                         \* the transcript, the clock, the results
    upStore, upQueued, upProducer, upWorker, upAttempts, upDone,
                                         \* upload queue: the stored queue, the
                                         \* tasks queued so far, the two calls in
                                         \* progress, the uploads tried and done
    foldNotes, foldOut,                  \* createSmartFolders: argument, result
    idxNotes, idxList, idxQuery, idxIndex, idxOut
                                         \* buildSemanticIndex and
                                         \* fastSemanticSearch: arguments, results

vars == << sumText, sumTarget, sumOut, senText, senOut, filText, filOut,
           expA, expB, expOutA, expOutB,
           srNote, srTokens, srPhase, srPos, srTag, srTotal, srTerms, srMatch,
           ssNotes, ssQuery, ssThreshold, ssOut,
           wcText, wcLang, wcMax, wcOut, wcEnough,
           tagText, tagOut, vocNotes, vocOut, repText, repNow, repOut,
           upStore, upQueued, upProducer, upWorker, upAttempts, upDone,
           foldNotes, foldOut, idxNotes, idxList, idxQuery, idxIndex, idxOut >>

None == "<none>"

(***************************************************************************)
(* JavaScript string primitives                                            *)
(***************************************************************************)
LowerLetters == "abcdefghijklmnopqrstuvwxyz"
UpperLetters == "ABCDEFGHIJKLMNOPQRSTUVWXYZ"
Digits == "0123456789"

\* The texts of this module are ASCII.  A letter outside ASCII is written
\* with the character below, which stands for the letter n with tilde
\* (U+00F1): like that letter it is one UTF-16 unit, is its own lower case, and
\* is in none of the character classes of the sources but \p{L}.
NonAsciiLetter == "#"

Ch(s, i) == SubSeq(s, i, i)

CharsOf(s) == { Ch(s, i) : i \in 1..Len(s) }

\* \s of a JavaScript regular expression, and the characters trim() strips
SpaceSet == {" ", "\t", "\n", "\r"}

IsSpace(c) == c \in SpaceSet

AsciiLetterSet == CharsOf(LowerLetters) \cup CharsOf(UpperLetters)

WordCharSet == AsciiLetterSet \cup CharsOf(Digits) \cup {"_"}

\* [a-zA-Z]
IsAsciiLetter(c) == c \in AsciiLetterSet

\* \w of a JavaScript regular expression
IsWordChar(c) == c \in WordCharSet

LowerOf == [ c \in CharsOf(UpperLetters) |->
               Ch(LowerLetters, CHOOSE i \in 1..Len(UpperLetters) : Ch(UpperLetters, i) = c) ]

LowerChar(c) == IF c \in DOMAIN LowerOf THEN LowerOf[c] ELSE c

\* the characters of s mapped one by one (halving keeps the evaluation shallow)
RECURSIVE toLowerCase(_)
toLowerCase(s) ==
    IF Len(s) = 0 THEN ""
    ELSE IF Len(s) = 1 THEN LowerChar(s)
    ELSE LET h == Len(s) \div 2
         IN toLowerCase(SubSeq(s, 1, h)) \o toLowerCase(SubSeq(s, h + 1, Len(s)))

Max(S) == CHOOSE x \in S : \A y \in S : y <= x
Min(S) == CHOOSE x \in S : \A y \in S : x <= y

\* A function written [x \in S |-> e] is evaluated anew at every application;
\* Tup and Fn give the same sequence or function with its values computed once.
Tup(f) == SubSeq(f, 1, Cardinality(DOMAIN f))
Fn(f) == f @@ << >>

\* the k-th smallest element of a set of integers
Nth(S, k) == CHOOSE x \in S : Cardinality({ y \in S : y < x }) = k - 1

NonSpaceAt(s) == { i \in 1..Len(s) : ~IsSpace(Ch(s, i)) }

trimStart(s) == IF NonSpaceAt(s) = {} THEN "" ELSE SubSeq(s, Min(NonSpaceAt(s)), Len(s))

trimEnd(s) == IF NonSpaceAt(s) = {} THEN "" ELSE SubSeq(s, 1, Max(NonSpaceAt(s)))

trim(s) == trimEnd(trimStart(s))

\* s.substring(from, to) with 0-based offsets, to exclusive
substring(s, from, to) == SubSeq(s, from + 1, to)

startsWith(s, p) == Len(p) <= Len(s) /\ SubSeq(s, 1, Len(p)) = p

endsWith(s, p) == Len(p) <= Len(s) /\ SubSeq(s, Len(s) - Len(p) + 1, Len(s)) = p

\* s.indexOf(p, from), 0-based, -1 when absent
indexOf(s, p, from) ==
    LET hits == { i \in from..(Len(s) - Len(p)) : SubSeq(s, i + 1, i + Len(p)) = p }
    IN IF hits = {} THEN -1 ELSE Min(hits)

includes(s, p) == indexOf(s, p, 0) # -1

\* array.join(sep)
RECURSIVE join(_, _)
join(a, sep) ==
    IF Len(a) = 0 THEN ""
    ELSE IF Len(a) = 1 THEN a[1]
    ELSE a[1] \o sep \o join(Tail(a), sep)

\* array.filter(keep), keep given as the set of indices that stay
filterAt(a, keep) ==
    LET rank == Fn([ i \in keep |-> Cardinality({ j \in keep : j < i }) + 1 ])
        at == Fn([ k \in 1..Cardinality(keep) |-> CHOOSE i \in keep : rank[i] = k ])
    IN Tup([ k \in 1..Cardinality(keep) |-> a[at[k]] ])

\* array.filter(s => s.length > 0)
nonEmpty(a) == filterAt(a, { i \in 1..Len(a) : a[i] # "" })

\* s.split(sep) for a regular expression whose matches are the given disjoint,
\* non-empty spans <<first, last>> (1-based, inclusive) of s
splitAt(s, seps) ==
    LET n == Cardinality(seps)
        rank == Fn([ sp \in seps |-> Cardinality({ t \in seps : t[1] < sp[1] }) + 1 ])
        sepOf == Fn([ k \in 1..n |-> CHOOSE sp \in seps : rank[sp] = k ])
    IN Tup([ k \in 1..(n + 1) |->
             SubSeq(s, IF k = 1 THEN 1 ELSE sepOf[k - 1][2] + 1,
                       IF k = n + 1 THEN Len(s) ELSE sepOf[k][1] - 1) ])

\* the last position of the run of characters of the class cls (a set of
\* characters) that goes on from position i
RunEnd(s, i, cls) == Min({ j \in i..Len(s) : j = Len(s) \/ ~(Ch(s, j + 1) \in cls) })

\* the maximal runs <<first, last>> of characters of the class cls: the matches
\* of the regular expression /[cls]+/g
Runs(s, cls) ==
    { << i, RunEnd(s, i, cls) >> :
        i \in { i \in 1..Len(s) : Ch(s, i) \in cls /\ (i = 1 \/ ~(Ch(s, i - 1) \in cls)) } }

SpaceRunEnd(s, i) == RunEnd(s, i, SpaceSet)

\* s.split(/\s+/): the pieces between maximal whitespace runs (a leading or
\* trailing run leaves an empty first or last piece)
splitWhitespace(s) == splitAt(s, Runs(s, SpaceSet))

\* Array.prototype.sort with the comparator (a, b) => a.key - b.key: ascending
\* by the field key, elements with equal keys keeping their order (the sort is
\* stable).  The element x is inserted after every element whose key is <= its own.
RECURSIVE insertStable(_, _)
insertStable(a, x) ==
    IF a = << >> THEN << x >>
    ELSE IF x.key < Head(a).key THEN << x >> \o a
    ELSE << Head(a) >> \o insertStable(Tail(a), x)

RECURSIVE sortStable(_)
sortStable(a) ==
    IF a = << >> THEN << >>
    ELSE insertStable(sortStable(SubSeq(a, 1, Len(a) - 1)), a[Len(a)])

\* Set.add for each item in turn: a set lists its members in insertion order
RECURSIVE addAll(_, _)
addAll(members, items) ==
    IF items = << >> THEN members
    ELSE addAll(IF Head(items) \in { members[i] : i \in 1..Len(members) } THEN members
                ELSE Append(members, Head(items)),
                Tail(items))

\* array.slice(0, n) for n >= 0
sliceFirst(a, n) == SubSeq(a, 1, IF n < Len(a) THEN n ELSE Len(a))

\* floor(sqrt(v)) by bisection on [lo, hi]
RECURSIVE isqrtIn(_, _, _)
isqrtIn(v, lo, hi) ==
    IF lo >= hi THEN lo
    ELSE LET mid == (lo + hi + 1) \div 2
         IN IF mid * mid <= v THEN isqrtIn(v, mid, hi) ELSE isqrtIn(v, lo, mid - 1)

isqrt(v) == isqrtIn(v, 0, 46340)

\* every concatenation of at most n chunks
RECURSIVE Concats(_, _)
Concats(chunks, n) ==
    IF n = 0 THEN {""}
    ELSE LET p == Concats(chunks, n - 1) IN p \cup { a \o c : a \in p, c \in chunks }

(***************************************************************************)
(* Summariser (src/utils/summarization.ts)                                 *)
(***************************************************************************)
STOP_WORDS ==
    { "the", "a", "an", "and", "or", "but", "in", "on", "at", "to", "for",
      "of", "with", "by", "from", "as", "is", "was", "are", "be", "been",
      "have", "has", "had", "do", "does", "did", "will", "would", "should",
      "could", "can", "may", "might", "must", "shall", "this", "that",
      "these", "those", "i", "you", "he", "she", "it", "we", "they",
      "what", "which", "who", "where", "when", "why", "how" }

\* SIGNIFICANCE_KEYWORDS in halves: 3 -> 6, 2 -> 4, 1.5 -> 3
\* A lexicon that is an ordinary object (SEMANTIC_RELATIONSHIPS,
\* SIGNIFICANCE_KEYWORDS): besides its own properties a lookup finds what it
\* inherits from Object.prototype, none of it an array or a number
OBJECT_PROTOTYPE_KEYS ==
    { "constructor", "__proto__", "hasOwnProperty", "isPrototypeOf",
      "propertyIsEnumerable", "toLocaleString", "toString", "valueOf",
      "__defineGetter__", "__defineSetter__", "__lookupGetter__", "__lookupSetter__" }

\* a score that is not a number: the scores that are numbers are never negative
NaN == 0 - 1

SIGNIFICANCE_KEYWORDS ==
    [ w \in { "important", "critical", "urgent" } |-> 6 ] @@
    [ w \in { "key", "must", "need", "issue", "problem", "solution", "result",
              "decision", "action", "agreed", "decided", "deadline" } |-> 4 ] @@
    [ w \in { "meeting", "discussion", "completed", "goal", "budget", "revenue",
              "client", "customer" } |-> 3 ]

IsSentenceEnd(c) == c \in { ".", "!", "?", "\n" }

\* text.split(/(?<=[.!?\n])\s+/): a separator starts at the first whitespace
\* character (scanning from the left, past the previous separator) that comes
\* right after one of . ! ? or newline, and takes the whitespace run from there
sentenceSeparators(s) ==
    LET cand == { i \in 2..Len(s) : IsSpace(Ch(s, i)) /\ IsSentenceEnd(Ch(s, i - 1)) }
        \* a candidate inside the run taken by an earlier candidate starts no match
        first == { i \in cand : \A j \in cand : j < i => SpaceRunEnd(s, j) < i }
    IN { << i, SpaceRunEnd(s, i) >> : i \in first }

mapTrim(a) == Tup([ k \in 1..Len(a) |-> trim(a[k]) ])

tokenizeSentences(text) == nonEmpty(mapTrim(splitAt(text, sentenceSeparators(text))))

\* replace(/[^\w\s]/g, ' ')
RECURSIVE blankNonWord(_)
blankNonWord(s) ==
    IF Len(s) = 0 THEN ""
    ELSE IF Len(s) = 1 THEN (IF IsWordChar(s) \/ IsSpace(s) THEN s ELSE " ")
    ELSE LET h == Len(s) \div 2
         IN blankNonWord(SubSeq(s, 1, h)) \o blankNonWord(SubSeq(s, h + 1, Len(s)))

tokenizeWords(text) == nonEmpty(splitWhitespace(blankNonWord(toLowerCase(text))))

Count(a, x) == Cardinality({ i \in 1..Len(a) : a[i] = x })

Range(a) == { a[i] : i \in 1..Len(a) }

\* the Map built by calculateWordFrequency, as a function on its keys
frequencyOfWords(words) == Fn([ w \in Range(words) \ STOP_WORDS |-> Count(words, w) ])

calculateWordFrequency(text) == frequencyOfWords(tokenizeWords(text))

\* the sum over the words of a of f[word], 0 for a word f does not have
RECURSIVE SumOver(_, _)
SumOver(a, f) ==
    IF Len(a) = 0 THEN 0
    ELSE IF Len(a) = 1 THEN (IF a[1] \in DOMAIN f THEN f[a[1]] ELSE 0)
    ELSE LET h == Len(a) \div 2
         IN SumOver(SubSeq(a, 1, h), f) + SumOver(SubSeq(a, h + 1, Len(a)), f)

ShortSentenceWords == 5
LongSentenceWords == 30

\* An operator's argument is evaluated once, a LET definition at every use:
\* the stages below pass what they computed on as arguments.

\* calculateSentenceScore in units of 1/800: the raw score in halves, times
\* 23/20 (x 1.15) for the first and last sentence, times 14/20 (x 0.7) for a
\* short and 17/20 (x 0.85) for a long sentence.  For a word that
\* Object.prototype has, SIGNIFICANCE_KEYWORDS[word] is a function or an
\* object: score += significance makes the score a string, which a later
\* multiplication turns into NaN and which Math.max, Math.min and the
\* subtraction of the normalisation read as NaN
scoreOfWords(words, wordFrequency, position, totalSentences) ==
    IF \E k \in 1..Len(words) : words[k] \in OBJECT_PROTOTYPE_KEYS THEN NaN
    ELSE (2 * SumOver(words, wordFrequency) + SumOver(words, SIGNIFICANCE_KEYWORDS))
         * (IF position = 0 \/ position = totalSentences - 1 THEN 23 ELSE 20)
         * (IF Len(words) < ShortSentenceWords THEN 14
            ELSE IF Len(words) > LongSentenceWords THEN 17 ELSE 20)

calculateSentenceScore(sentence, wordFrequency, position, totalSentences) ==
    scoreOfWords(tokenizeWords(sentence), wordFrequency, position, totalSentences)

vectorOfWords(words) == Fn([ w \in Range(words) \ STOP_WORDS |-> Count(words, w) ])

sentenceToVector(sentence) == vectorOfWords(tokenizeWords(sentence))

RECURSIVE SumSet(_, _)
SumSet(S, f) ==
    IF S = {} THEN 0 ELSE LET x == CHOOSE x \in S : TRUE IN f[x] + SumSet(S \ {x}, f)

cosineOf(dot, na, nb) ==
    IF na = 0 \/ nb = 0 THEN 0 ELSE isqrt((dot * dot * 1000000) \div (na * nb))

\* cosineSimilarity in thousandths, rounded down
cosineSimilarity(a, b) ==
    cosineOf(SumSet(DOMAIN a \cap DOMAIN b, Fn([ k \in DOMAIN a \cap DOMAIN b |-> a[k] * b[k] ])),
             SumSet(DOMAIN a, Fn([ k \in DOMAIN a |-> a[k] * a[k] ])),
             SumSet(DOMAIN b, Fn([ k \in DOMAIN b |-> b[k] * b[k] ])))

\* finalScores.sort((a, b) => b.score - a.score)
sortByScoreDescending(finalScores) ==
    LET sorted == sortStable(Tup([ i \in 1..Len(finalScores) |->
                     [ key |-> 0 - finalScores[i].score, item |-> finalScores[i] ] ]))
    IN Tup([ i \in 1..Len(sorted) |-> sorted[i].item ])

\* The outcomes of finalScores.sort((a, b) => b.score - a.score).  When every
\* score is a number the comparator is consistent and the sort, which is
\* stable, has one outcome.  With a score that is NaN the comparator returns
\* NaN, it is not a consistent comparator and the order is whatever the
\* engine's algorithm leaves: any order of the entries.
sortOutcomes(finalScores) ==
    IF \A i \in 1..Len(finalScores) : finalScores[i].score # NaN
    THEN { sortByScoreDescending(finalScores) }
    ELSE { Tup([ i \in 1..Len(finalScores) |-> finalScores[perm[i]] ]) :
             perm \in Permutations(1..Len(finalScores)) }

\* the selection left in score order
sortByOriginalIndex_skipped(top) == top

\* .sort((a, b) => a.originalIndex - b.originalIndex)
sortByOriginalIndex(top) ==
    LET sorted == sortStable(Tup([ i \in 1..Len(top) |->
                     [ key |-> top[i].originalIndex, item |-> top[i] ] ]))
    IN Tup([ i \in 1..Len(sorted) |-> sorted[i].item ])

NoContentSummary == "No content to summarize."

\* x || 1 for a score x held in units of 1/unit: 0 and NaN are falsy
orOne(x, unit) == IF x = 0 \/ x = NaN THEN unit ELSE x

\* x || 0
orZero(x) == IF x = NaN THEN 0 ELSE x

\* Math.max(...scores) and Math.min(...scores): NaN when one of them is NaN
maxScore(scores) == IF NaN \in Range(scores) THEN NaN ELSE Max(Range(scores))
minScore(scores) == IF NaN \in Range(scores) THEN NaN ELSE Min(Range(scores))

\* (score - min) / range in ten-thousandths (rounded down)
normalized(score, min, range) ==
    IF score = NaN THEN NaN ELSE ((score - min) * 10000) \div range

\* 0.55 * normFreq + 0.45 * normCentral in millionths
weighted(normFreq, normCentral) ==
    IF normFreq = NaN \/ normCentral = NaN THEN NaN ELSE 55 * normFreq + 45 * normCentral

\* the scores normalised with the given minimum and range
normalizeAll(scores, min, range) ==
    Tup([ i \in 1..Len(scores) |-> normalized(scores[i], min, range) ])

\* normFreq of every sentence; freqScore is in units of 1/800
normFreqOf(freqScore) ==
    normalizeAll(freqScore, orZero(minScore(freqScore)),
                 orOne(orOne(maxScore(freqScore), 800) - orZero(minScore(freqScore)), 800))

\* normCentral of every sentence; centrality is in thousandths
normCentralOf(centrality) ==
    normalizeAll(centrality, orZero(minScore(centrality)),
                 orOne(orOne(maxScore(centrality), 1000) - orZero(minScore(centrality)), 1000))

\* the combined score in millionths: 0.55 x the normalised frequency score +
\* 0.45 x the normalised centrality
combine(sentences, normFreq, normCentral) ==
    Tup([ i \in 1..Len(sentences) |->
            [ sentence |-> sentences[i],
              score |-> weighted(normFreq[i], normCentral[i]),
              originalIndex |-> i - 1 ] ])

normalizeAndCombine(sentences, freqScore, centrality) ==
    combine(sentences, normFreqOf(freqScore), normCentralOf(centrality))

centralityOf(vec) ==
    Tup([ i \in 1..Len(vec) |->
            SumSet((1..Len(vec)) \ {i},
                   Fn([ j \in (1..Len(vec)) \ {i} |-> cosineSimilarity(vec[i], vec[j]) ])) ])

freqScoresOf(sentences, wordFrequency) ==
    Tup([ i \in 1..Len(sentences) |->
            calculateSentenceScore(sentences[i], wordFrequency, i - 1, Len(sentences)) ])

combinedScores(text, sentences) ==
    normalizeAndCombine(sentences,
                        freqScoresOf(sentences, calculateWordFrequency(text)),
                        centralityOf(Tup([ i \in 1..Len(sentences) |->
                                             sentenceToVector(sentences[i]) ])))

sentencesOf(picked) == Tup([ i \in 1..Len(picked) |-> picked[i].sentence ])

summaryOf_clockInCount(top, wordCount, now) ==
    [ summary |-> join(top, "\n"), sentences |-> top, wordCount |-> wordCount + now,
      generatedAt |-> now ]

summaryOf(top, wordCount, now) ==
    [ summary |-> join(top, "\n"), sentences |-> top, wordCount |-> wordCount,
      generatedAt |-> now ]

\* the results the call can return, one for each outcome of the sort
summarizeOutcomes(text, sentences, targetSentences, now) ==
    IF Len(sentences) = 0
    THEN { [ summary |-> NoContentSummary, sentences |-> << >>, wordCount |-> 0,
             generatedAt |-> now ] }
    ELSE IF Len(sentences) <= targetSentences
    THEN { summaryOf(sentences, Len(tokenizeWords(text)), now) }
    ELSE { summaryOf(sentencesOf(sortByOriginalIndex(sliceFirst(sorted, targetSentences))),
                     Len(tokenizeWords(text)), now) :
             sorted \in sortOutcomes(combinedScores(text, sentences)) }

\* now is the value of Date.now()
generateSummaryOutcomes(text, targetSentences, now) ==
    summarizeOutcomes(text, tokenizeSentences(text), targetSentences, now)

\* the result of the call for a text that has one outcome
summarize(text, sentences, targetSentences, now) ==
    CHOOSE r \in summarizeOutcomes(text, sentences, targetSentences, now) : TRUE

generateSummary(text, targetSentences, now) ==
    summarize(text, tokenizeSentences(text), targetSentences, now)

(***************************************************************************)
(* Specification of the summariser: the arguments are drawn at Init, the   *)
(* one action applies generateSummary.                                     *)
(***************************************************************************)
MaxSumChunks == 3
MaxTarget == 3

SumChunks ==
    { "Budget is urgent. ", "We agreed on the budget deadline!\n\n",
      "ok\nplan ", " Plan? The client asked about the budget plan. " }

SumTexts == Concats(SumChunks, MaxSumChunks)

SumClock == { 1, 2 }

SumIdle ==
    /\ sumText = None /\ sumTarget = 0 /\ sumOut = << >>

SenIdle ==
    /\ senText = None /\ senOut = << >>

FilIdle ==
    /\ filText = None /\ filOut = << >>

ExpIdle ==
    /\ expA = None /\ expB = None /\ expOutA = << >> /\ expOutB = << >>

SrIdle ==
    /\ srNote = << >> /\ srTokens = << >> /\ srPhase = None /\ srPos = 0
    /\ srTag = 0 /\ srTotal = 0 /\ srTerms = << >> /\ srMatch = None

SsIdle ==
    /\ ssNotes = << >> /\ ssQuery = None /\ ssThreshold = 0 /\ ssOut = << >>

WcIdle ==
    /\ wcText = None /\ wcLang = None /\ wcMax = 0 /\ wcOut = << >> /\ wcEnough = << >>

TagIdle == tagText = None /\ tagOut = << >>

VocIdle == vocNotes = << >> /\ vocOut = << >>

RepIdle == repText = None /\ repNow = 0 /\ repOut = << >>

\* nothing stored, nothing queued, no call in progress
UpIdle ==
    /\ upStore = << >> /\ upQueued = 0 /\ upProducer = [ pc |-> "idle" ]
    /\ upWorker = [ pc |-> "idle" ] /\ upAttempts = << >> /\ upDone = {}

FoldIdle == foldNotes = << >> /\ foldOut = << >>

IdxIdle ==
    /\ idxNotes = << >> /\ idxList = << >> /\ idxQuery = None
    /\ idxIndex = << >> /\ idxOut = << >>

Idle ==
    /\ SumIdle /\ SenIdle /\ FilIdle /\ ExpIdle /\ SrIdle /\ SsIdle /\ WcIdle
    /\ TagIdle /\ VocIdle /\ RepIdle /\ UpIdle /\ FoldIdle /\ IdxIdle

sumVars == << sumText, sumTarget, sumOut >>
senVars == << senText, senOut >>
filVars == << filText, filOut >>
expVars == << expA, expB, expOutA, expOutB >>
srVars == << srNote, srTokens, srPhase, srPos, srTag, srTotal, srTerms, srMatch >>
ssVars == << ssNotes, ssQuery, ssThreshold, ssOut >>
wcVars == << wcText, wcLang, wcMax, wcOut, wcEnough >>
tagVars == << tagText, tagOut >>
vocVars == << vocNotes, vocOut >>
repVars == << repText, repNow, repOut >>
upVars == << upStore, upQueued, upProducer, upWorker, upAttempts, upDone >>
foldVars == << foldNotes, foldOut >>
idxVars == << idxNotes, idxList, idxQuery, idxIndex, idxOut >>

SumInit ==
    /\ sumText \in SumTexts
    /\ sumTarget \in 1..MaxTarget
    /\ sumOut = << >>
    /\ SenIdle
    /\ FilIdle
    /\ ExpIdle
    /\ SrIdle
    /\ SsIdle
    /\ WcIdle
    /\ TagIdle
    /\ VocIdle
    /\ RepIdle
    /\ UpIdle
    /\ FoldIdle
    /\ IdxIdle

GenerateSummary ==
    /\ sumOut = << >>
    /\ \E now \in SumClock :
           \E r \in generateSummaryOutcomes(sumText, sumTarget, now) : sumOut' = << r >>
    /\ UNCHANGED << sumText, sumTarget, senVars, filVars, expVars, srVars, ssVars, wcVars, tagVars, vocVars, repVars, upVars, foldVars, idxVars >>

SumNext == GenerateSummary

SumSpec == SumInit /\ [][SumNext]_vars

(***************************************************************************)
(* Specification of the selection: transcripts of up to MaxSelChunks       *)
(* sentences, one of which speaks of a constructor.                        *)
(***************************************************************************)
MaxSelChunks == 3

SelChunks ==
    { "Budget is urgent. ", "The constructor takes the budget plan and the goal. ",
      "We agreed on the budget deadline! ", "The client asked about the budget plan. " }

SelTexts == Concats(SelChunks, MaxSelChunks)

SelInit ==
    /\ sumText \in SelTexts
    /\ sumTarget \in 1..MaxTarget
    /\ sumOut = << >>
    /\ SenIdle
    /\ FilIdle
    /\ ExpIdle
    /\ SrIdle
    /\ SsIdle
    /\ WcIdle
    /\ TagIdle
    /\ VocIdle
    /\ RepIdle
    /\ UpIdle
    /\ FoldIdle
    /\ IdxIdle

SelNext == GenerateSummary

SelSpec == SelInit /\ [][SelNext]_vars


\* out is a subsequence of all, in the order of all
IsSubsequence(out, all) ==
    \E S \in SUBSET (1..Len(all)) :
        /\ Cardinality(S) = Len(out)
        /\ \A k \in 1..Len(out) : out[k] = all[Nth(S, k)]

SummaryContract(text, target, r) ==
    LET all == tokenizeSentences(text)
    IN /\ IsSubsequence(r.sentences, all)
       /\ Len(r.sentences) = (IF target < Len(all) THEN target ELSE Len(all))
       /\ (Len(all) <= target => r.sentences = all)
       /\ r.summary = join(r.sentences, "\n")

\* C1 as stated: for every text and every target count N >= 1 the sentences of
\* generateSummary(text, N) are a subsequence of the text's sentences in their
\* original order, of length min(N, number of sentences), all of them when the
\* text has at most N, and summary is these sentences joined by the separator.
C1_AsStated ==
    sumOut # << >> => SummaryContract(sumText, sumTarget, sumOut[1])

\* C1 amended: the same for every text that has at least one sentence (a text
\* without sentences gets the fixed marker as its summary, not the empty join).
C1_Summary ==
    (sumOut # << >> /\ Len(tokenizeSentences(sumText)) >= 1)
        => SummaryContract(sumText, sumTarget, sumOut[1])

\* a summary of two or more sentences, chosen by score, that skips an earlier sentence
C1_Witness ==
    /\ sumOut # << >>
    /\ sumTarget >= 2
    /\ Len(tokenizeSentences(sumText)) > sumTarget
    /\ sumOut[1].sentences # SubSeq(tokenizeSentences(sumText), 1, sumTarget)


(***************************************************************************)
(* Sentiment analyser (src/utils/sentimentAnalysis.ts)                     *)
(*                                                                         *)
(* Lexicon intensities are in hundredths and intensifier factors in        *)
(* tenths; an accumulated score is in units of 1/2000, so that the half    *)
(* of an intensified intensity is a whole number.  A SentimentScore field  *)
(* is the exact fraction [n |-> numerator, d |-> denominator], d > 0.      *)
(***************************************************************************)
POSITIVE_WORDS_TABLE ==
    { <<"good", 70>>, <<"great", 90>>, <<"excellent", 95>>, <<"amazing", 95>>,
      <<"wonderful", 90>>, <<"fantastic", 95>>, <<"brilliant", 90>>, <<"awesome", 95>>,
      <<"perfect", 95>>, <<"beautiful", 85>>, <<"love", 90>>, <<"happy", 85>>,
      <<"glad", 80>>, <<"pleased", 80>>, <<"satisfied", 75>>, <<"proud", 85>>,
      <<"confident", 75>>, <<"successful", 85>>, <<"winning", 85>>,
      <<"accomplished", 85>>, <<"thrilled", 90>>, <<"delighted", 90>>,
      <<"grateful", 85>>, <<"appreciate", 80>>, <<"inspired", 85>>,
      <<"motivated", 80>>, <<"excited", 85>>, <<"optimistic", 80>>, <<"positive", 75>>,
      <<"improvement", 70>>, <<"better", 70>>, <<"best", 85>>, <<"success", 85>>,
      <<"achieve", 75>>, <<"victory", 85>>, <<"triumph", 85>>, <<"well", 60>>,
      <<"nice", 70>>, <<"cool", 70>>, <<"enjoyed", 80>>, <<"fun", 75>>,
      <<"interesting", 65>>, <<"fascinated", 80>> }

NEGATIVE_WORDS_TABLE ==
    { <<"bad", 70>>, <<"terrible", 95>>, <<"horrible", 95>>, <<"awful", 95>>,
      <<"hate", 90>>, <<"angry", 85>>, <<"upset", 80>>, <<"sad", 85>>,
      <<"depressed", 90>>, <<"disappointed", 80>>, <<"frustrated", 80>>,
      <<"annoyed", 70>>, <<"bored", 70>>, <<"tired", 65>>, <<"stressed", 80>>,
      <<"anxious", 80>>, <<"worried", 80>>, <<"afraid", 85>>, <<"scared", 85>>,
      <<"difficult", 65>>, <<"problem", 70>>, <<"issue", 65>>, <<"failed", 85>>,
      <<"failure", 85>>, <<"loss", 80>>, <<"lost", 75>>, <<"worst", 90>>,
      <<"wrong", 70>>, <<"mistake", 65>>, <<"error", 65>>, <<"bug", 60>>,
      <<"pain", 80>>, <<"hurt", 75>>, <<"sick", 75>>, <<"ill", 70>>,
      <<"negative", 75>>, <<"useless", 85>>, <<"worthless", 85>>, <<"stupid", 85>>,
      <<"dumb", 85>>, <<"ridiculous", 80>>, <<"pathetic", 85>>, <<"disgusting", 90>>,
      <<"disgusted", 85>>, <<"furious", 90>>, <<"enraged", 95>>, <<"devastated", 90>>,
      <<"miserable", 90>>, <<"dreadful", 90>> }

INTENSIFIERS_TABLE ==
    { <<"very", 12>>, <<"extremely", 13>>, <<"so", 12>>, <<"really", 12>>,
      <<"quite", 11>>, <<"absolutely", 13>>, <<"totally", 13>>, <<"completely", 13>>,
      <<"utterly", 13>> }

TableToFunction(table) ==
    Fn([ w \in { t[1] : t \in table } |-> (CHOOSE t \in table : t[1] = w)[2] ])

POSITIVE_WORDS == TableToFunction(POSITIVE_WORDS_TABLE)
NEGATIVE_WORDS == TableToFunction(NEGATIVE_WORDS_TABLE)
INTENSIFIERS == TableToFunction(INTENSIFIERS_TABLE)

NEGATIONS ==
    { "not", "no", "never", "neither", "nobody", "nothing", "hardly", "barely", "rarely" }

TerminatorSet == { ".", "!", "?" }

\* text.split(/[.!?]+/).map(s => s.trim()).filter(s => s.length > 0)
tokenizeSentencesSentiment(text) == nonEmpty(mapTrim(splitAt(text, Runs(text, TerminatorSet))))

\* replace(/[^\w\s'-]/g, ''): the other characters are deleted, not blanked
RECURSIVE dropPunctuation(_)
dropPunctuation(s) ==
    IF Len(s) = 0 THEN ""
    ELSE IF Len(s) = 1
         THEN (IF IsWordChar(s) \/ IsSpace(s) \/ s = "'" \/ s = "-" THEN s ELSE "")
    ELSE LET h == Len(s) \div 2
         IN dropPunctuation(SubSeq(s, 1, h)) \o dropPunctuation(SubSeq(s, h + 1, Len(s)))

tokenizeWordsSentiment(text) ==
    nonEmpty(splitWhitespace(dropPunctuation(toLowerCase(text))))

Rat(n, d) == [ n |-> n, d |-> d ]
RatGT(r, n, d) == r.n * d > n * r.d
RatGE(r, n, d) == r.n * d >= n * r.d
RatLE(r, n, d) == r.n * d <= n * r.d
RatLT(r, n, d) == r.n * d < n * r.d

\* the lexicon lookup of lines 255-261: the intensity of the word and its polarity
lexiconHit(word) ==
    IF word \in DOMAIN POSITIVE_WORDS
    THEN [ score |-> POSITIVE_WORDS[word], isPositive |-> TRUE ]
    ELSE IF word \in DOMAIN NEGATIVE_WORDS
    THEN [ score |-> NEGATIVE_WORDS[word], isPositive |-> FALSE ]
    ELSE [ score |-> 0, isPositive |-> FALSE ]

\* a negated hit left in its own bucket at full strength
addToBuckets_noFlip(isPositive, hasNegation, score) ==
    IF isPositive THEN [ pos |-> 2 * score, neg |-> 0 ] ELSE [ pos |-> 0, neg |-> 2 * score ]

\* lines 275-288: what one hit adds to positiveScore and negativeScore; score
\* is the intensified intensity in thousandths, the result is in units of 1/2000
addToBuckets(isPositive, hasNegation, score) ==
    IF hasNegation
    THEN (IF isPositive THEN [ pos |-> 0, neg |-> score ] ELSE [ pos |-> score, neg |-> 0 ])
    ELSE (IF isPositive THEN [ pos |-> 2 * score, neg |-> 0 ]
          ELSE [ pos |-> 0, neg |-> 2 * score ])

\* one iteration of the loop of calculateSentiment, for the i-th word
wordContribution(words, i) ==
    LET hit == lexiconHit(words[i])
        intensifier == IF i > 1 /\ words[i - 1] \in DOMAIN INTENSIFIERS
                       THEN INTENSIFIERS[words[i - 1]] ELSE 10
        hasNegation == i > 1 /\ words[i - 1] \in NEGATIONS
    IN IF hit.score > 0
       THEN addToBuckets(hit.isPositive, hasNegation, hit.score * intensifier)
       ELSE [ pos |-> 0, neg |-> 0 ]

\* positiveScore and negativeScore after the loop
sentimentTotals(words) ==
    [ pos |-> SumSet(1..Len(words), Fn([ i \in 1..Len(words) |-> wordContribution(words, i).pos ])),
      neg |-> SumSet(1..Len(words), Fn([ i \in 1..Len(words) |-> wordContribution(words, i).neg ])) ]

RatMin1(r) == IF r.n > r.d THEN Rat(1, 1) ELSE r
RatClamp(r) == IF r.n > r.d THEN Rat(1, 1) ELSE IF r.n < 0 - r.d THEN Rat(-1, 1) ELSE r

\* lines 294-308, from the two totals
scoreOfTotals(positiveScore, negativeScore) ==
    [ positive |-> IF positiveScore + negativeScore > 0
                   THEN RatMin1(Rat(positiveScore, positiveScore + negativeScore))
                   ELSE Rat(0, 1),
      negative |-> IF positiveScore + negativeScore > 0
                   THEN RatMin1(Rat(negativeScore, positiveScore + negativeScore))
                   ELSE Rat(0, 1),
      neutral |-> IF positiveScore + negativeScore > 0 THEN Rat(0, 1) ELSE Rat(1, 1),
      compound |-> RatClamp(Rat(positiveScore - negativeScore,
                                IF positiveScore + negativeScore > 2000
                                THEN positiveScore + negativeScore ELSE 2000)),
      positiveScore |-> positiveScore,
      negativeScore |-> negativeScore ]

totalsToScore(t) == scoreOfTotals(t.pos, t.neg)

calculateSentiment(text) == totalsToScore(sentimentTotals(tokenizeWordsSentiment(text)))

classifySentiment(compound, positive, negative) ==
    IF RatGT(positive, 3, 10) /\ RatGT(negative, 3, 10) THEN "Mixed"
    ELSE IF RatGE(compound, 5, 100) THEN "Positive"
    ELSE IF RatLE(compound, -5, 100) THEN "Negative"
    ELSE "Neutral"

getEmotionalTone(sentiment, compound) ==
    IF sentiment = "Positive"
    THEN (IF RatGT(compound, 5, 10) THEN "Very Positive - Highly enthusiastic and optimistic"
          ELSE IF RatGT(compound, 2, 10) THEN "Positive - Satisfied and content"
          ELSE "Somewhat Positive - Mildly favorable")
    ELSE IF sentiment = "Negative"
    THEN (IF RatLT(compound, -5, 10) THEN "Very Negative - Highly critical and upset"
          ELSE IF RatLT(compound, -2, 10) THEN "Negative - Dissatisfied and concerned"
          ELSE "Somewhat Negative - Slightly unfavorable")
    ELSE IF sentiment = "Mixed"
    THEN "Mixed - Both positive and negative sentiments present"
    ELSE "Neutral - Objective and impartial tone"

positivePatterns ==
    << "very good", "really great", "so good", "so great", "absolutely love",
       "really love", "great job", "well done", "impressed with", "looking forward",
       "cant wait", "excited about", "look forward", "good news", "great idea",
       "brilliant idea", "brilliant work" >>

negativePatterns ==
    << "very bad", "really bad", "so bad", "absolutely hate", "hate it", "dont like",
       "not good", "not great", "bad news", "bad luck", "terrible idea", "awful idea",
       "not happy", "really upset", "very upset", "extremely disappointed",
       "totally disappointed", "never again", "wasted time" >>

phrasesIn(lowerText, patterns, sentiment) ==
    LET found == filterAt(patterns, { i \in 1..Len(patterns) : includes(lowerText, patterns[i]) })
    IN Tup([ k \in 1..Len(found) |->
               [ phrase |-> found[k], sentiment |-> sentiment, intensity |-> Rat(8, 10) ] ])

extractKeyPhrases(text) ==
    phrasesIn(toLowerCase(text), positivePatterns, "Positive")
    \o phrasesIn(toLowerCase(text), negativePatterns, "Negative")

sentenceSentiment(sentence, score) ==
    [ text |-> sentence, sentiment |-> score,
      sentiment_label |-> classifySentiment(score.compound, score.positive, score.negative) ]

isSentimentWord(w) == w \in DOMAIN POSITIVE_WORDS \/ w \in DOMAIN NEGATIVE_WORDS \/ w \in NEGATIONS

confidenceOf(words) ==
    RatMin1(Rat(Cardinality({ i \in 1..Len(words) : isSentimentWord(words[i]) }),
                IF Len(words) > 1 THEN Len(words) ELSE 1))

\* lines 368-405; the overall label is computed by the call of line 370, which
\* passes (positive, negative, compound) for (compound, positive, negative)
sentimentResult(text, overallScore, overallSentiment, sentences, now) ==
    [ overall |-> overallScore,
      sentiment |-> overallSentiment,
      confidence |-> confidenceOf(tokenizeWordsSentiment(text)),
      sentences |-> Tup([ k \in 1..Len(sentences) |->
                            sentenceSentiment(sentences[k], calculateSentiment(sentences[k])) ]),
      emotionalTone |-> getEmotionalTone(overallSentiment, overallScore.compound),
      keyPhrases |-> extractKeyPhrases(text),
      analysisDate |-> now ]

analyzeNonEmpty(text, overallScore, now) ==
    sentimentResult(text, overallScore,
                    classifySentiment(overallScore.positive, overallScore.negative,
                                      overallScore.compound),
                    tokenizeSentencesSentiment(text), now)

\* now is the time new Date() holds
analyzeSentiment(text, now) ==
    IF Len(trim(text)) = 0
    THEN [ overall |-> [ positive |-> Rat(0, 1), negative |-> Rat(0, 1),
                         neutral |-> Rat(1, 1), compound |-> Rat(0, 1),
                         positiveScore |-> 0, negativeScore |-> 0 ],
           sentiment |-> "Neutral",
           confidence |-> Rat(0, 1),
           sentences |-> << >>,
           emotionalTone |-> "No content to analyze",
           keyPhrases |-> << >>,
           analysisDate |-> now ]
    ELSE analyzeNonEmpty(text, calculateSentiment(text), now)

MaxSenChunks == 3

SenChunks == { "not ", "good ", "bad. ", "very ", "Great! ", "the plan ", "no issue " }

SenTexts == Concats(SenChunks, MaxSenChunks)

SenClock == { 1, 2 }

SenInit ==
    /\ senText \in SenTexts
    /\ senOut = << >>
    /\ SumIdle
    /\ FilIdle
    /\ ExpIdle
    /\ SrIdle
    /\ SsIdle
    /\ WcIdle
    /\ TagIdle
    /\ VocIdle
    /\ RepIdle
    /\ UpIdle
    /\ FoldIdle
    /\ IdxIdle

AnalyzeSentiment ==
    /\ senOut = << >>
    /\ \E now \in SenClock : senOut' = << analyzeSentiment(senText, now) >>
    /\ UNCHANGED << senText, sumVars, filVars, expVars, srVars, ssVars, wcVars, tagVars, vocVars, repVars, upVars, foldVars, idxVars >>

SenNext == AnalyzeSentiment

SenSpec == SenInit /\ [][SenNext]_vars


\* the label the classification rule gives a score: Mixed if normalised positive
\* and negative both exceed 0.3, otherwise by the compound against +-0.05
LabelOfScore(score) ==
    IF RatGT(score.positive, 3, 10) /\ RatGT(score.negative, 3, 10) THEN "Mixed"
    ELSE IF RatGE(score.compound, 5, 100) THEN "Positive"
    ELSE IF RatLE(score.compound, -5, 100) THEN "Negative"
    ELSE "Neutral"

\* C2 as stated: for every non-empty text the overall label of analyzeSentiment
\* and every per-sentence label is the label the rule gives that span's own score.
C2_LabelFromOwnScore ==
    (senOut # << >> /\ Len(trim(senText)) > 0) =>
        /\ senOut[1].sentiment = LabelOfScore(senOut[1].overall)
        /\ \A k \in 1..Len(senOut[1].sentences) :
               senOut[1].sentences[k].sentiment_label
                   = LabelOfScore(senOut[1].sentences[k].sentiment)

IsNegatedAt(words, i) == i > 1 /\ words[i - 1] \in NEGATIONS

\* the intensity of the i-th word, times the intensifier before it, in thousandths
IntensifiedAt(words, i) ==
    (IF words[i] \in DOMAIN POSITIVE_WORDS THEN POSITIVE_WORDS[words[i]]
     ELSE NEGATIVE_WORDS[words[i]])
    * (IF i > 1 /\ words[i - 1] \in DOMAIN INTENSIFIERS THEN INTENSIFIERS[words[i - 1]] ELSE 10)

PositiveHits(words) == { i \in 1..Len(words) : words[i] \in DOMAIN POSITIVE_WORDS }
NegativeHits(words) ==
    { i \in 1..Len(words) : words[i] \in DOMAIN NEGATIVE_WORDS \ DOMAIN POSITIVE_WORDS }

\* what the rule of C3 puts in a bucket (units of 1/2000): the whole score of
\* its own hits that are not negated, half the score of the negated hits of the
\* other polarity
BucketByRule(words, own, other) ==
    SumSet(own, Fn([ i \in own |-> IF IsNegatedAt(words, i) THEN 0
                                   ELSE 2 * IntensifiedAt(words, i) ]))
    + SumSet(other, Fn([ i \in other |-> IF IsNegatedAt(words, i)
                                         THEN IntensifiedAt(words, i) ELSE 0 ]))

NegationRule(words, overall) ==
    /\ overall.positiveScore = BucketByRule(words, PositiveHits(words), NegativeHits(words))
    /\ overall.negativeScore = BucketByRule(words, NegativeHits(words), PositiveHits(words))
    /\ \A i \in 1..Len(words) :
          /\ (PositiveHits(words) = {i} /\ NegativeHits(words) = {} /\ IsNegatedAt(words, i))
                => overall.compound.n < 0
          /\ (NegativeHits(words) = {i} /\ PositiveHits(words) = {} /\ IsNegatedAt(words, i))
                => overall.compound.n > 0

\* C3: a lexicon word right after a negation word adds half its (intensified)
\* score to the opposite bucket and nothing to its own; so a text whose only
\* hit is a negated positive word has compound < 0, a negated negative one > 0.
C3_NegationFlipsAndHalves ==
    (senOut # << >> /\ Len(trim(senText)) > 0) =>
        NegationRule(tokenizeWordsSentiment(senText), senOut[1].overall)

\* an analysed text whose only lexicon hit is a negated positive word
C3_Witness ==
    /\ senOut # << >>
    /\ \E i \in 1..Len(tokenizeWordsSentiment(senText)) :
          /\ PositiveHits(tokenizeWordsSentiment(senText)) = {i}
          /\ NegativeHits(tokenizeWordsSentiment(senText)) = {}
          /\ IsNegatedAt(tokenizeWordsSentiment(senText), i)
    /\ senOut[1].overall.negativeScore > 0


(***************************************************************************)
(* Filler-word detector (src/utils/fillerWordRemoval.ts)                   *)
(***************************************************************************)
FILLER_VERBAL ==
    << "um", "uh", "err", "erm", "hmm", "huh", "ah", "oh", "aah", "ooh", "eeh", "agh" >>

FILLER_DISCOURSE ==
    << "like", "you know", "i mean", "basically", "literally", "actually", "honestly",
       "i think", "i feel", "sort of", "kind of", "so", "well", "right", "okay" >>

FILLER_VERBAL_TICS ==
    << "anyway", "anyhow", "at the end of the day", "for sure", "you know what",
       "for whatever reason", "in terms of" >>

FILLER_PHRASE ==
    << "you know", "i mean", "sort of", "kind of", "i think", "i feel",
       "at the end of the day", "you know what", "you know what i mean", "for sure",
       "for whatever reason" >>

FILLER_WORDS_SET ==
    Range(FILLER_VERBAL) \cup Range(FILLER_DISCOURSE)
        \cup Range(FILLER_VERBAL_TICS) \cup Range(FILLER_PHRASE)

\* the categories are written in the order verbal, discourse, verbal_tics,
\* phrase, a later one replacing an earlier one
FILLER_WORDS_CATEGORY ==
    Fn([ w \in FILLER_WORDS_SET |->
           IF w \in Range(FILLER_PHRASE) THEN "phrase"
           ELSE IF w \in Range(FILLER_VERBAL_TICS) THEN "verbal-tics"
           ELSE IF w \in Range(FILLER_DISCOURSE) THEN "discourse"
           ELSE "verbal" ])

\* /[a-zA-Z'-]/
TokenCharSet == AsciiLetterSet \cup { "'", "-" }

tokenOfRun(text, run) ==
    [ word |-> SubSeq(text, run[1], run[2]), start |-> run[1] - 1, end |-> run[2] ]

\* the maximal runs of token characters, left to right, with 0-based offsets
\* (end exclusive)
tokenizeWithPositions(text) ==
    LET runs == Runs(text, TokenCharSet)
        starts == { r[1] : r \in runs }
    IN Tup([ k \in 1..Cardinality(runs) |->
               tokenOfRun(text, CHOOSE r \in runs : r[1] = Nth(starts, k)) ])

isFillerWord(word) == trim(toLowerCase(word)) \in FILLER_WORDS_SET

phrasePatterns ==
    << "you know what i mean", "you know what", "i think that", "i feel like",
       "i mean like", "sort of like", "kind of like", "at the end of the day",
       "for whatever reason" >>

\* the while loop of extractFillerPhrases for one phrase, from offset index
RECURSIVE phraseMatches(_, _, _, _)
phraseMatches(text, lowerText, phrase, index) ==
    LET at == indexOf(lowerText, phrase, index)
    IN IF at = -1 THEN << >>
       ELSE << [ word |-> substring(text, at, at + Len(phrase)),
                 startIndex |-> at, endIndex |-> at + Len(phrase),
                 category |-> "phrase" ] >>
            \o phraseMatches(text, lowerText, phrase, at + Len(phrase))

RECURSIVE phrasesFrom(_, _, _)
phrasesFrom(text, lowerText, p) ==
    IF p > Len(phrasePatterns) THEN << >>
    ELSE phraseMatches(text, lowerText, phrasePatterns[p], 0)
         \o phrasesFrom(text, lowerText, p + 1)

extractFillerPhrases(text) == phrasesFrom(text, toLowerCase(text), 1)

fillerOfToken(token) ==
    [ word |-> token.word, startIndex |-> token.start, endIndex |-> token.end,
      category |-> FILLER_WORDS_CATEGORY[toLowerCase(token.word)] ]

fillersOfTokens(tokens) ==
    LET kept == filterAt(tokens, { i \in 1..Len(tokens) : isFillerWord(tokens[i].word) })
    IN Tup([ k \in 1..Len(kept) |-> fillerOfToken(kept[k]) ])

extractSingleWordFillers(text) == fillersOfTokens(tokenizeWithPositions(text))

\* [...phraseFillers, ...singleFillers].sort((a, b) => a.startIndex - b.startIndex)
sortByStart(fillers) ==
    LET sorted == sortStable(Tup([ i \in 1..Len(fillers) |->
                     [ key |-> fillers[i].startIndex, item |-> fillers[i] ] ]))
    IN Tup([ i \in 1..Len(sorted) |-> sorted[i].item ])

startsInside_afterStart(filler, existing) ==
    filler.startIndex > existing.startIndex /\ filler.startIndex < existing.endIndex

startsInside(filler, existing) ==
    filler.startIndex >= existing.startIndex /\ filler.startIndex < existing.endIndex

\* lines 233-247: a match is kept unless it starts inside a match kept before it
RECURSIVE mergeFillers(_, _, _)
mergeFillers(allFillers, i, mergedFillers) ==
    IF i > Len(allFillers) THEN mergedFillers
    ELSE mergeFillers(allFillers, i + 1,
             IF \E j \in 1..Len(mergedFillers) : startsInside(allFillers[i], mergedFillers[j])
             THEN mergedFillers
             ELSE Append(mergedFillers, allFillers[i]))

\* lines 250-259: from the last kept match to the first, its span is replaced
\* by one space
RECURSIVE blankFillers(_, _, _)
blankFillers(cleanedText, mergedFillers, i) ==
    IF i = 0 THEN cleanedText
    ELSE blankFillers(substring(cleanedText, 0, mergedFillers[i].startIndex) \o " "
                        \o substring(cleanedText, mergedFillers[i].endIndex, Len(cleanedText)),
                      mergedFillers, i - 1)

\* replace(/\s+/g, ' ')
collapseWhitespace(s) == join(splitWhitespace(s), " ")

\* lines 265-289: the segments of the text between and at the kept matches
RECURSIVE highlightFrom(_, _, _, _)
highlightFrom(text, mergedFillers, i, lastEnd) ==
    IF i > Len(mergedFillers)
    THEN (IF lastEnd < Len(text)
          THEN << [ text |-> substring(text, lastEnd, Len(text)), isFillerWord |-> FALSE,
                    category |-> None ] >>
          ELSE << >>)
    ELSE (IF lastEnd < mergedFillers[i].startIndex
          THEN << [ text |-> substring(text, lastEnd, mergedFillers[i].startIndex),
                    isFillerWord |-> FALSE, category |-> None ] >>
          ELSE << >>)
         \o << [ text |-> substring(text, mergedFillers[i].startIndex, mergedFillers[i].endIndex),
                 isFillerWord |-> TRUE, category |-> mergedFillers[i].category ] >>
         \o highlightFrom(text, mergedFillers, i + 1, mergedFillers[i].endIndex)

\* lines 292-296: the counts by lower-cased word, as the entries of the object
\* in insertion order
fillerFrequency(mergedFillers) ==
    LET words == Tup([ k \in 1..Len(mergedFillers) |->
                         trim(toLowerCase(mergedFillers[k].word)) ])
        keys == addAll(<< >>, words)
    IN Tup([ k \in 1..Len(keys) |-> [ word |-> keys[k], count |-> Count(words, keys[k]) ] ])

\* lines 299-306: the first word with the highest count, null for no word
mostCommonOf(frequency) ==
    IF Len(frequency) = 0 THEN None
    ELSE frequency[Min({ k \in 1..Len(frequency) :
                            \A j \in 1..Len(frequency) : frequency[j].count <= frequency[k].count })].word

\* Math.round(value * 100) / 100 in hundredths, for the value num / den with
\* den > 0: a half is rounded up
roundedHundredths(num, den) == (200 * num + den) \div (2 * den)

\* text.split(/[.!?]+/).filter((s) => s.trim().length > 0)
fillerSentences(text) ==
    LET parts == splitAt(text, Runs(text, TerminatorSet))
    IN filterAt(parts, { i \in 1..Len(parts) : Len(trim(parts[i])) > 0 })

fillerResult_highlightTrimmed(text, mergedFillers) ==
    [ originalText |-> text,
      cleanedText |-> trim(collapseWhitespace(
                          blankFillers(text, mergedFillers, Len(mergedFillers)))),
      highlightedText |-> highlightFrom(trim(text), mergedFillers, 1, 0),
      fillerWords |-> mergedFillers,
      totalFillerWords |-> Len(mergedFillers),
      fillerWordPercentage |->
          roundedHundredths(100 * Len(mergedFillers), Len(splitWhitespace(text))),
      mostCommonFiller |-> mostCommonOf(fillerFrequency(mergedFillers)),
      fillerWordFrequency |-> fillerFrequency(mergedFillers),
      averageFillerWordsPerSentence |->
          IF Len(fillerSentences(text)) > 0
          THEN roundedHundredths(Len(mergedFillers), Len(fillerSentences(text)))
          ELSE 0 ]

\* the result for the kept matches; totalWords is the number of pieces of
\* text.split(/\s+/), which is never 0
fillerResult(text, mergedFillers) ==
    [ originalText |-> text,
      cleanedText |-> trim(collapseWhitespace(
                          blankFillers(text, mergedFillers, Len(mergedFillers)))),
      highlightedText |-> highlightFrom(text, mergedFillers, 1, 0),
      fillerWords |-> mergedFillers,
      totalFillerWords |-> Len(mergedFillers),
      fillerWordPercentage |->
          roundedHundredths(100 * Len(mergedFillers), Len(splitWhitespace(text))),
      mostCommonFiller |-> mostCommonOf(fillerFrequency(mergedFillers)),
      fillerWordFrequency |-> fillerFrequency(mergedFillers),
      averageFillerWordsPerSentence |->
          IF Len(fillerSentences(text)) > 0
          THEN roundedHundredths(Len(mergedFillers), Len(fillerSentences(text)))
          ELSE 0 ]

\* fillerWordPercentage and averageFillerWordsPerSentence are in hundredths
analyzeFillerWords(text) ==
    IF Len(trim(text)) = 0
    THEN [ originalText |-> text, cleanedText |-> text, highlightedText |-> << >>,
           fillerWords |-> << >>, totalFillerWords |-> 0, fillerWordPercentage |-> 0,
           mostCommonFiller |-> None, fillerWordFrequency |-> << >>,
           averageFillerWordsPerSentence |-> 0 ]
    ELSE fillerResult(text,
             mergeFillers(sortByStart(extractFillerPhrases(text) \o extractSingleWordFillers(text)),
                          1, << >>))

removeFillerWords(text) == analyzeFillerWords(text).cleanedText

MaxFilChunks == 3

FilChunks ==
    { "Um, ", " ", "i think that", "so", "like", "good. ", "\t", "#ar ", "You know ",
      "what i mean like" }

FilTexts == Concats(FilChunks, MaxFilChunks)

FilInit ==
    /\ filText \in FilTexts
    /\ filOut = << >>
    /\ SumIdle
    /\ SenIdle
    /\ ExpIdle
    /\ SrIdle
    /\ SsIdle
    /\ WcIdle
    /\ TagIdle
    /\ VocIdle
    /\ RepIdle
    /\ UpIdle
    /\ FoldIdle
    /\ IdxIdle

AnalyzeFillerWords ==
    /\ filOut = << >>
    /\ filOut' = << analyzeFillerWords(filText) >>
    /\ UNCHANGED << filText, sumVars, senVars, expVars, srVars, ssVars, wcVars, tagVars, vocVars, repVars, upVars, foldVars, idxVars >>

FilNext == AnalyzeFillerWords

FilSpec == FilInit /\ [][FilNext]_vars

\* the single-word entries of the filler lexicon
SingleWordFillers == { w \in FILLER_WORDS_SET : ~includes(w, " ") }

\* C4: the cleaned text holds no word token that is a single-word filler of the
\* lexicon, compared case-insensitively.
C4_NoFillerTokenLeft ==
    filOut # << >> =>
        \A k \in 1..Len(tokenizeWithPositions(filOut[1].cleanedText)) :
            ~(toLowerCase(tokenizeWithPositions(filOut[1].cleanedText)[k].word)
                  \in SingleWordFillers)

\* C5: the cleaned text neither starts nor ends with a whitespace character and
\* has no run of two or more whitespace characters.
C5_CleanedWhitespace ==
    filOut # << >> =>
        LET c == filOut[1].cleanedText
        IN /\ (Len(c) > 0 => ~IsSpace(Ch(c, 1)) /\ ~IsSpace(Ch(c, Len(c))))
           /\ \A i \in 1..(Len(c) - 1) : ~(IsSpace(Ch(c, i)) /\ IsSpace(Ch(c, i + 1)))


(***************************************************************************)
(* Semantic search (src/unnamed/part_002)                                  *)
(***************************************************************************)
\* the object literal SEMANTIC_RELATIONSHIPS, its entries in source order
SEMANTIC_ENTRIES ==
    << << "budget", << "finance", "money", "cost", "expense", "spending", "financial",
                       "invest", "capital", "funds" >> >>,
       << "finance", << "budget", "money", "cost", "expense", "spending", "invest",
                        "capital", "profit", "revenue" >> >>,
       << "expense", << "budget", "cost", "spending", "money", "finance", "bill",
                        "payment", "invoice" >> >>,
       << "revenue", << "finance", "money", "income", "profit", "sales", "business",
                        "earnings" >> >>,
       << "profit", << "revenue", "finance", "business", "income", "success", "earnings" >> >>,
       << "cost", << "expense", "budget", "money", "spending", "finance", "price",
                     "payment" >> >>,
       << "money", << "budget", "finance", "expense", "cost", "spending", "payment",
                      "income", "wealth" >> >>,
       << "salary", << "payment", "income", "money", "compensation", "wage", "earnings" >> >>,
       << "invoice", << "payment", "bill", "expense", "money", "cost" >> >>,
       << "meeting", << "discussion", "conversation", "talk", "conference", "presentation",
                        "call", "gathering", "sync" >> >>,
       << "discussion", << "meeting", "conversation", "talk", "debate", "topic",
                           "dialogue" >> >>,
       << "presentation", << "meeting", "demo", "talk", "pitch", "showcase", "show" >> >>,
       << "call", << "meeting", "conversation", "discussion", "sync", "conference",
                     "communication" >> >>,
       << "sync", << "meeting", "call", "check-in", "update", "discussion", "sync-up" >> >>,
       << "project", << "task", "work", "delivery", "deadline", "milestone", "objective",
                        "goal" >> >>,
       << "task", << "project", "work", "assignment", "responsibility", "to-do", "item" >> >>,
       << "deadline", << "project", "timeline", "date", "schedule", "due", "time" >> >>,
       << "milestone", << "project", "achievement", "goal", "target", "checkpoint" >> >>,
       << "goal", << "objective", "target", "aim", "purpose", "milestone", "outcome" >> >>,
       << "client", << "customer", "customer-name", "account", "business", "contract",
                       "relationship" >> >>,
       << "customer", << "client", "user", "account", "buyer", "business" >> >>,
       << "technology", << "tech", "software", "development", "code", "technical", "system",
                           "infrastructure" >> >>,
       << "development", << "technology", "coding", "engineering", "software", "building",
                            "creation" >> >>,
       << "bug", << "issue", "problem", "error", "fix", "development", "technical" >> >>,
       << "feature", << "development", "functionality", "capability", "enhancement",
                        "build" >> >>,
       << "marketing", << "campaign", "promotion", "advertising", "brand", "strategy",
                          "outreach", "engagement" >> >>,
       << "campaign", << "marketing", "promotion", "strategy", "initiative", "launch",
                         "effort" >> >>,
       << "sales", << "revenue", "business", "customer", "closing", "deal", "opportunity",
                      "pipeline" >> >>,
       << "deal", << "sales", "business", "closing", "opportunity", "contract",
                     "agreement" >> >>,
       << "important", << "critical", "urgent", "priority", "key", "essential",
                          "significant" >> >>,
       << "urgent", << "important", "critical", "priority", "rush", "emergency",
                       "immediate" >> >>,
       << "follow-up", << "action", "task", "to-do", "reminder", "next-step" >> >>,
       << "decision", << "choice", "outcome", "result", "conclusion", "direction" >> >>,
       << "today", << "date", "current", "now", "immediate", "schedule" >> >>,
       << "tomorrow", << "date", "schedule", "upcoming", "future" >> >>,
       << "week", << "time", "schedule", "duration", "period" >> >>,
       << "month", << "time", "quarter", "period", "duration", "schedule" >> >>,
       << "complete", << "done", "finished", "closed", "resolved", "success" >> >>,
       << "done", << "complete", "finished", "success", "achieved" >> >>,
       << "pending", << "waiting", "todo", "upcoming", "scheduled", "in-progress" >> >>,
       << "in-progress", << "active", "ongoing", "working", "status", "pending" >> >> >>

\* Object.keys(SEMANTIC_RELATIONSHIPS)
SEMANTIC_KEYS == Tup([ k \in 1..Len(SEMANTIC_ENTRIES) |-> SEMANTIC_ENTRIES[k][1] ])

\* the own properties of the object
SEMANTIC_RELATIONSHIPS ==
    Fn([ key \in Range(SEMANTIC_KEYS) |->
           SEMANTIC_ENTRIES[CHOOSE k \in 1..Len(SEMANTIC_ENTRIES) :
                                SEMANTIC_ENTRIES[k][1] = key][2] ])



\* replace(/[^\w\s-]/g, '')
RECURSIVE dropSpecialChars(_)
dropSpecialChars(s) ==
    IF Len(s) = 0 THEN ""
    ELSE IF Len(s) = 1 THEN (IF IsWordChar(s) \/ IsSpace(s) \/ s = "-" THEN s ELSE "")
    ELSE LET h == Len(s) \div 2
         IN dropSpecialChars(SubSeq(s, 1, h)) \o dropSpecialChars(SubSeq(s, h + 1, Len(s)))

MinTokenLength == 2

tokensOfPieces(pieces) ==
    filterAt(pieces, { i \in 1..Len(pieces) : Len(pieces[i]) > MinTokenLength })

tokenizeQuery(query) == tokensOfPieces(splitWhitespace(dropSpecialChars(toLowerCase(query))))

\* the keys whose related list holds the token, in the order of Object.entries
reverseKeys(token) ==
    filterAt(SEMANTIC_KEYS,
             { k \in 1..Len(SEMANTIC_KEYS) :
                   token \in Range(SEMANTIC_RELATIONSHIPS[SEMANTIC_KEYS[k]]) })

\* a result is [error, value]: error is None when the call returns value, and
\* the name of the exception when it throws.  relatedTerms.forEach is not a
\* function when the lookup finds an inherited property.
getSemanticExpansions(token) ==
    IF token \in OBJECT_PROTOTYPE_KEYS
    THEN [ error |-> "TypeError", value |-> << >> ]
    ELSE [ error |-> None,
           value |-> addAll(addAll(<< token >>,
                                   IF token \in DOMAIN SEMANTIC_RELATIONSHIPS
                                   THEN SEMANTIC_RELATIONSHIPS[token] ELSE << >>),
                            reverseKeys(token)) ]

\* similarity scores in tenths
ExactScore == 10
SubstringScore == 7
PartialScore == 4

\* the if / else if chain of lines 126-139 for one expansion
expansionScore(textLower, token, expandedToken) ==
    IF \/ includes(textLower, " " \o expandedToken \o " ")
       \/ startsWith(textLower, expandedToken \o " ")
       \/ endsWith(textLower, " " \o expandedToken)
       \/ textLower = expandedToken
    THEN ExactScore
    ELSE IF includes(textLower, expandedToken) THEN SubstringScore
    ELSE IF includes(expandedToken, token) \/ includes(token, expandedToken) THEN PartialScore
    ELSE 0

maxScoreOver(textLower, token, tokenExpansions) ==
    Max({ 0 } \cup { expansionScore(textLower, token, tokenExpansions[k]) :
                        k \in 1..Len(tokenExpansions) })

\* the score in tenths; defined when getSemanticExpansions(token) returns
calculateSimilarity(text, token) ==
    maxScoreOver(toLowerCase(text), token, getSemanticExpansions(token).value)

throws(token) == getSemanticExpansions(token).error # None


\* every term of the concept graph, a term outside it, and a term that names an
\* inherited property
RelatedTerms == UNION { Range(SEMANTIC_RELATIONSHIPS[key]) : key \in Range(SEMANTIC_KEYS) }

ExpTerms == Range(SEMANTIC_KEYS) \cup RelatedTerms \cup { "notes", "constructor" }

ExpInit ==
    /\ expA \in ExpTerms
    /\ expB \in ExpTerms
    /\ expOutA = << >>
    /\ expOutB = << >>
    /\ SumIdle
    /\ SenIdle
    /\ FilIdle
    /\ SrIdle
    /\ SsIdle
    /\ WcIdle
    /\ TagIdle
    /\ VocIdle
    /\ RepIdle
    /\ UpIdle
    /\ FoldIdle
    /\ IdxIdle

ExpandA ==
    /\ expOutA = << >>
    /\ expOutA' = << getSemanticExpansions(expA) >>
    /\ UNCHANGED << expA, expB, expOutB, sumVars, senVars, filVars, srVars, ssVars, wcVars, tagVars, vocVars, repVars, upVars, foldVars, idxVars >>

ExpandB ==
    /\ expOutB = << >>
    /\ expOutB' = << getSemanticExpansions(expB) >>
    /\ UNCHANGED << expA, expB, expOutA, sumVars, senVars, filVars, srVars, ssVars, wcVars, tagVars, vocVars, repVars, upVars, foldVars, idxVars >>

ExpNext == ExpandA \/ ExpandB

ExpSpec == ExpInit /\ [][ExpNext]_vars

\* the related list of a term, empty when the term is not a key of the graph
RelatedOf(a) ==
    IF a \in Range(SEMANTIC_KEYS) THEN Range(SEMANTIC_RELATIONSHIPS[a]) ELSE {}

\* C6: for all terms a and b, b is in the expansion of a exactly when a is in
\* the expansion of b; the expansion of a holds a itself, every term of a's
\* related list and every key whose related list holds a.
C6_SymmetricExpansion ==
    (expOutA # << >> /\ expOutB # << >>) =>
        /\ expOutA[1].error = None
        /\ expOutB[1].error = None
        /\ (expB \in Range(expOutA[1].value)) <=> (expA \in Range(expOutB[1].value))
        /\ expA \in Range(expOutA[1].value)
        /\ RelatedOf(expA) \subseteq Range(expOutA[1].value)
        /\ { key \in Range(SEMANTIC_KEYS) : expA \in RelatedOf(key) }
               \subseteq Range(expOutA[1].value)


\* the weights of a title, transcription and tag score (1, 0.8 and 1.2) in
\* tenths: a total is kept exact, in hundredths
TitleWeight == 10
TranscriptionWeight == 8
TagWeight == 12

\* the running values of the loop body for one note: totalScore, matchedTerms
\* (in insertion order) and matchType
startOfNote == [ total |-> 0, terms |-> << >>, match |-> "semantic" ]

\* lines 169-175
titleUpdate(st, token, score) ==
    IF score > 0
    THEN [ total |-> st.total + score * TitleWeight,
           terms |-> addAll(st.terms, << token >>),
           match |-> IF score = ExactScore THEN "exact"
                     ELSE IF score >= SubstringScore THEN "keyword"
                     ELSE st.match ]
    ELSE st

\* lines 181-187
transcriptionUpdate(st, token, score) ==
    IF score > 0
    THEN [ total |-> st.total + score * TranscriptionWeight,
           terms |-> addAll(st.terms, << token >>),
           match |-> IF score = ExactScore /\ st.match # "exact" THEN "exact"
                     ELSE IF score >= SubstringScore /\ st.match = "semantic" THEN "keyword"
                     ELSE st.match ]
    ELSE st

\* lines 194-199
tagUpdate(st, token, score) ==
    IF score > 0
    THEN [ total |-> st.total + score * TagWeight,
           terms |-> addAll(st.terms, << token >>),
           match |-> IF score = ExactScore THEN "exact" ELSE st.match ]
    ELSE st

RECURSIVE titleLoop(_, _, _, _)
titleLoop(title, tokens, i, st) ==
    IF i > Len(tokens) THEN st
    ELSE titleLoop(title, tokens, i + 1,
                   titleUpdate(st, tokens[i], calculateSimilarity(title, tokens[i])))

RECURSIVE transcriptionLoop(_, _, _, _)
transcriptionLoop(transcription, tokens, i, st) ==
    IF i > Len(tokens) THEN st
    ELSE transcriptionLoop(transcription, tokens, i + 1,
             transcriptionUpdate(st, tokens[i], calculateSimilarity(transcription, tokens[i])))

RECURSIVE tagLoop(_, _, _, _)
tagLoop(tag, tokens, i, st) ==
    IF i > Len(tokens) THEN st
    ELSE tagLoop(tag, tokens, i + 1,
                 tagUpdate(st, tokens[i], calculateSimilarity(tag, tokens[i])))

RECURSIVE tagsLoop(_, _, _, _)
tagsLoop(tags, tokens, t, st) ==
    IF t > Len(tags) THEN st
    ELSE tagsLoop(tags, tokens, t + 1, tagLoop(tags[t], tokens, 1, st))

\* lines 161-202 for one note, the tokens all having expansions
scoreNote(note, tokens) ==
    tagsLoop(note.tags, tokens, 1,
        transcriptionLoop(note.transcription, tokens, 1,
            IF note.title # "" THEN titleLoop(note.title, tokens, 1, startOfNote)
            ELSE startOfNote))

\* matchedTerms.slice(0, 2).join(', ')
generateExplanation(matchedTerms) ==
    IF Len(matchedTerms) = 0 THEN "Semantic match"
    ELSE "Matched: " \o join(sliceFirst(matchedTerms, 2), ", ")

\* the result pushed for a note; relevanceScore is total / (100 * tokenCount),
\* kept as that fraction, and 0 / 1 when there is no token
resultOf(note, tokenCount, st) ==
    [ note |-> note,
      relevanceScore |-> IF tokenCount > 0 THEN Rat(st.total, 100 * tokenCount)
                         ELSE Rat(0, 1),
      matchType |-> st.match,
      matchedTerms |-> st.terms,
      explanation |-> generateExplanation(st.terms) ]

\* relevanceScore >= threshold, the threshold in hundredths
passesThreshold(result, threshold) == RatGE(result.relevanceScore, threshold, 100)

\* results.sort((a, b) => b.relevanceScore - a.relevanceScore); every result
\* has the same denominator
sortByRelevance(results) ==
    LET sorted == sortStable(Tup([ i \in 1..Len(results) |->
                     [ key |-> 0 - results[i].relevanceScore.n, item |-> results[i] ] ]))
    IN Tup([ i \in 1..Len(sorted) |-> sorted[i].item ])

searchResults(notes, tokens, threshold) ==
    LET all == Tup([ i \in 1..Len(notes) |->
                       resultOf(notes[i], Len(tokens), scoreNote(notes[i], tokens)) ])
    IN sortByRelevance(filterAt(all, { i \in 1..Len(all) : passesThreshold(all[i], threshold) }))

\* a result is [error, value] as for getSemanticExpansions: the first call of
\* calculateSimilarity with a token that has no expansions throws, and every
\* token is used for the transcription of the first note
searchTokens(notes, tokens, threshold) ==
    IF Len(notes) > 0 /\ \E i \in 1..Len(tokens) : throws(tokens[i])
    THEN [ error |-> "TypeError", value |-> << >> ]
    ELSE [ error |-> None, value |-> searchResults(notes, tokens, threshold) ]

semanticSearch(notes, query, threshold) ==
    IF trim(query) = "" THEN [ error |-> None, value |-> << >> ]
    ELSE searchTokens(notes, tokenizeQuery(query), threshold)


\* The loop body of semanticSearch for one note, one similarity at a time.
\* srPhase is the loop the control is in ("title", "transcription", "tags"),
\* "done" after line 202, "threw" when a call has thrown; srPos is the index of
\* the next token and srTag the index of the current tag.
MaxTags == 2

SrTitles == { "", "Budget meetings", "budget" }

SrTranscriptions == { "", "we talked about money", "the budgets grew" }

SrTagNames == { "budget", "meetings" }

RECURSIVE SeqsUpTo(_, _)
SeqsUpTo(S, n) ==
    IF n = 0 THEN { << >> }
    ELSE LET p == SeqsUpTo(S, n - 1) IN p \cup { Append(a, x) : a \in p, x \in S }

SrNotes ==
    { [ title |-> ti, transcription |-> tr, tags |-> tg ] :
        ti \in SrTitles, tr \in SrTranscriptions, tg \in SeqsUpTo(SrTagNames, MaxTags) }

SrQueries == { "budget meeting", "Meeting?", "zebra", "a b", "the constructor" }

SrInit ==
    /\ srNote \in SrNotes
    /\ srTokens \in { tokenizeQuery(q) : q \in SrQueries }
    /\ srPhase = "title"
    /\ srPos = 1
    /\ srTag = 1
    /\ srTotal = 0
    /\ srTerms = << >>
    /\ srMatch = "semantic"
    /\ SumIdle
    /\ SenIdle
    /\ FilIdle
    /\ ExpIdle
    /\ SsIdle
    /\ WcIdle
    /\ TagIdle
    /\ VocIdle
    /\ RepIdle
    /\ UpIdle
    /\ FoldIdle
    /\ IdxIdle

srState == [ total |-> srTotal, terms |-> srTerms, match |-> srMatch ]

srOthers == << sumVars, senVars, filVars, expVars, ssVars, wcVars, tagVars, vocVars, repVars, upVars, foldVars, idxVars >>

\* the running values after one more similarity; nothing is assigned when the
\* call throws
SrAssign(st) ==
    IF throws(srTokens[srPos])
    THEN /\ srPhase' = "threw"
         /\ UNCHANGED << srPos, srTotal, srTerms, srMatch >>
    ELSE /\ srPos' = srPos + 1
         /\ srTotal' = st.total
         /\ srTerms' = st.terms
         /\ srMatch' = st.match
         /\ UNCHANGED srPhase

TitleStep ==
    /\ srPhase = "title" /\ srNote.title # "" /\ srPos <= Len(srTokens)
    /\ SrAssign(titleUpdate(srState, srTokens[srPos],
                            calculateSimilarity(srNote.title, srTokens[srPos])))
    /\ UNCHANGED << srNote, srTokens, srTag, srOthers >>

TitleEnd ==
    /\ srPhase = "title" /\ (srNote.title = "" \/ srPos > Len(srTokens))
    /\ srPhase' = "transcription"
    /\ srPos' = 1
    /\ UNCHANGED << srNote, srTokens, srTag, srTotal, srTerms, srMatch, srOthers >>

TranscriptionStep ==
    /\ srPhase = "transcription" /\ srPos <= Len(srTokens)
    /\ SrAssign(transcriptionUpdate(srState, srTokens[srPos],
                    calculateSimilarity(srNote.transcription, srTokens[srPos])))
    /\ UNCHANGED << srNote, srTokens, srTag, srOthers >>

TranscriptionEnd ==
    /\ srPhase = "transcription" /\ srPos > Len(srTokens)
    /\ srPhase' = "tags"
    /\ srPos' = 1
    /\ UNCHANGED << srNote, srTokens, srTag, srTotal, srTerms, srMatch, srOthers >>

TagStep ==
    /\ srPhase = "tags" /\ srTag <= Len(srNote.tags) /\ srPos <= Len(srTokens)
    /\ SrAssign(tagUpdate(srState, srTokens[srPos],
                          calculateSimilarity(srNote.tags[srTag], srTokens[srPos])))
    /\ UNCHANGED << srNote, srTokens, srTag, srOthers >>

NextTag ==
    /\ srPhase = "tags" /\ srTag <= Len(srNote.tags) /\ srPos > Len(srTokens)
    /\ srTag' = srTag + 1
    /\ srPos' = 1
    /\ UNCHANGED << srNote, srTokens, srPhase, srTotal, srTerms, srMatch, srOthers >>

TagsEnd ==
    /\ srPhase = "tags" /\ srTag > Len(srNote.tags)
    /\ srPhase' = "done"
    /\ UNCHANGED << srNote, srTokens, srPos, srTag, srTotal, srTerms, srMatch, srOthers >>

SrNext ==
    \/ TitleStep
    \/ TitleEnd
    \/ TranscriptionStep
    \/ TranscriptionEnd
    \/ TagStep
    \/ NextTag
    \/ TagsEnd

SrSpec == SrInit /\ [][SrNext]_vars

MatchRank == [ semantic |-> 0, keyword |-> 1, exact |-> 2 ]

\* every similarity the loop body computes for the note: of the title when
\* there is one, of the transcription and of each tag, for each token
SimilaritiesOf(note, tokens) ==
    { calculateSimilarity(text, tokens[i]) :
        text \in (IF note.title # "" THEN { note.title } ELSE {})
                     \cup { note.transcription } \cup Range(note.tags),
        i \in 1..Len(tokens) }

LabelOfSimilarities(S) ==
    IF ExactScore \in S THEN "exact"
    ELSE IF \E s \in S : s >= SubstringScore THEN "keyword"
    ELSE "semantic"

\* C7: while one note is scored the match type never moves down in the order
\* semantic < keyword < exact, and after the title, transcription and tags it
\* is exact if a similarity was 1.0, else keyword if one was >= 0.7, else
\* semantic.
C7_MatchTypeEscalates ==
    /\ [][MatchRank[srMatch'] >= MatchRank[srMatch]]_vars
    /\ [](srPhase = "done" => srMatch = LabelOfSimilarities(SimilaritiesOf(srNote, srTokens)))


MaxNotes == 2

SsNotePool ==
    { [ title |-> "Budget meetings", transcription |-> "we talked about money",
        tags |-> << "finance" >> ],
      [ title |-> "", transcription |-> "zebra crossing", tags |-> << >> ],
      [ title |-> "Plan", transcription |-> "the budgets grew", tags |-> << >> ] }

SsQueries == { "", "  ", "budget", "Budget meeting!", "a b", "constructor" }

\* thresholds in hundredths; 30 is the default
SsThresholds == { 0, 30, 50, 100, 200 }

SsInit ==
    /\ ssNotes \in SeqsUpTo(SsNotePool, MaxNotes)
    /\ ssQuery \in SsQueries
    /\ ssThreshold \in SsThresholds
    /\ ssOut = << >>
    /\ SumIdle
    /\ SenIdle
    /\ FilIdle
    /\ ExpIdle
    /\ SrIdle
    /\ WcIdle
    /\ TagIdle
    /\ VocIdle
    /\ RepIdle
    /\ UpIdle
    /\ FoldIdle
    /\ IdxIdle

SemanticSearch ==
    /\ ssOut = << >>
    /\ ssOut' = << semanticSearch(ssNotes, ssQuery, ssThreshold) >>
    /\ UNCHANGED << ssNotes, ssQuery, ssThreshold, sumVars, senVars, filVars, expVars,
                    srVars, wcVars, tagVars, vocVars, repVars, upVars, foldVars, idxVars >>

SsNext == SemanticSearch

SsSpec == SsInit /\ [][SsNext]_vars

\* the relevance of the statement, times 100 times the number of tokens: the
\* sum over the tokens of similarity(title) + 0.8 similarity(transcription)
\* + 1.2 similarity(tag) for each tag
StatedTokenTotal(note, token) ==
    calculateSimilarity(note.title, token) * TitleWeight
        + calculateSimilarity(note.transcription, token) * TranscriptionWeight
        + SumSet(1..Len(note.tags),
                 [ t \in 1..Len(note.tags) |->
                     calculateSimilarity(note.tags[t], token) * TagWeight ])

StatedTotal(note, tokens) ==
    SumSet(1..Len(tokens), [ i \in 1..Len(tokens) |-> StatedTokenTotal(note, tokens[i]) ])

\* stated relevance >= threshold, the threshold in hundredths, for a query that
\* has tokens
StatedPass(note, tokens, threshold) ==
    StatedTotal(note, tokens) >= threshold * Len(tokens)

NotesOf(results) == Tup([ i \in 1..Len(results) |-> results[i].note ])

\* C8: semanticSearch returns exactly the notes whose relevance is at least the
\* threshold, in the order of non-increasing relevance (the relevance divides by
\* the number of query tokens: it is compared for a query that has tokens).
C8_ThresholdAndOrder ==
    ssOut # << >> =>
        LET tokens == tokenizeQuery(ssQuery)
            found == NotesOf(ssOut[1].value)
        IN /\ ssOut[1].error = None
           /\ Len(tokens) > 0 =>
                  /\ \A note \in SsNotePool :
                         Count(found, note) =
                             IF StatedPass(note, tokens, ssThreshold)
                             THEN Count(ssNotes, note) ELSE 0
                  /\ \A i \in 1..Len(found) : \A j \in i..Len(found) :
                         StatedTotal(found[i], tokens) >= StatedTotal(found[j], tokens)

(***************************************************************************)
(* Word cloud (src/utils/wordCloud.ts)                                     *)
(***************************************************************************)
STOP_WORDS_EN ==
    { "a", "about", "above", "after", "again", "against", "all", "am", "an", "and",
      "any", "are", "as", "at", "be", "because", "been", "before", "being", "below",
      "between", "both", "but", "by", "can", "could", "did", "do", "does", "doing",
      "down", "during", "each", "few", "for", "from", "further", "had", "has", "have",
      "having", "he", "her", "here", "hers", "herself", "him", "himself", "his", "how",
      "i", "if", "in", "into", "is", "it", "its", "itself", "just", "me", "might",
      "more", "most", "must", "my", "myself", "no", "nor", "not", "of", "off", "on",
      "once", "only", "or", "other", "our", "ours", "ourselves", "out", "over", "own",
      "same", "should", "so", "some", "such", "than", "that", "the", "their", "theirs",
      "them", "themselves", "then", "there", "these", "they", "this", "those", "through",
      "to", "too", "under", "until", "up", "very", "was", "we", "were", "what", "when",
      "where", "which", "while", "who", "whom", "why", "will", "with", "you", "your",
      "yours", "yourself", "yourselves", "um", "uh", "hmm", "like", "you know", "okay",
      "really", "basically", "actually", "sort of", "kind of", "well", "right",
      "though", "thing", "things", "said", "say", "says", "etc", "etc.", "mr", "mrs" }

\* STOP_WORDS_HI holds seventeen Devanagari words; the texts of this model are
\* ASCII, and none of their words is one of them
STOP_WORDS_HI == {}

StopWordsOf_english(language) ==
    IF language = "hi" THEN STOP_WORDS_HI ELSE STOP_WORDS_EN

\* STOP_WORDS_MAP[language] || new Set()
StopWordsOf(language) ==
    IF language = "en" THEN STOP_WORDS_EN
    ELSE IF language = "hi" THEN STOP_WORDS_HI
    ELSE {}

\* \p{L} over the alphabet of the model's texts: the ASCII letters and the
\* letter outside ASCII.  Digits and punctuation are not letters.
LetterSet == AsciiLetterSet \cup { NonAsciiLetter }

\* the characters the class [^[\p{L}'-] leaves in a word: letters, the
\* apostrophe, the hyphen and the opening bracket
CloudCharSet == LetterSet \cup { "[", "'", "-" }

\* word.replace(/[^[\p{L}'-]+/gu, '')
RECURSIVE keepCloudChars(_)
keepCloudChars(s) ==
    IF Len(s) = 0 THEN ""
    ELSE IF Len(s) = 1 THEN (IF s \in CloudCharSet THEN s ELSE "")
    ELSE LET h == Len(s) \div 2
         IN keepCloudChars(SubSeq(s, 1, h)) \o keepCloudChars(SubSeq(s, h + 1, Len(s)))

MinLenEnglish == 3
MinLenOther == 1

minLenOf(language) == IF language = "en" THEN MinLenEnglish ELSE MinLenOther

cleanWords(pieces) == Tup([ k \in 1..Len(pieces) |-> trim(keepCloudChars(pieces[k])) ])

longEnough_all(words, minLen) == words

longEnough(words, minLen) == filterAt(words, { i \in 1..Len(words) : Len(words[i]) >= minLen })

tokenizeText(text, language) ==
    IF text = "" THEN << >>
    ELSE longEnough(cleanWords(splitWhitespace(toLowerCase(text))), minLenOf(language))

\* the Map of word to count as the sequence of its entries, in insertion order
countedWords(words, stopWords) ==
    LET keys == addAll(<< >>, filterAt(words, { i \in 1..Len(words) : ~(words[i] \in stopWords) }))
    IN Tup([ k \in 1..Len(keys) |-> [ word |-> keys[k], freq |-> Count(words, keys[k]) ] ])

calculateWordFrequencyCloud(words, language) == countedWords(words, StopWordsOf(language))

SizeSteps == 4

sizeTenths_wide(freq, minFreq, range) ==
    (20 * (SizeSteps + 1) * (freq - minFreq) + 20 * range + range) \div (2 * range)

\* Math.round(normalized_size * 10), the size in tenths:
\* 10 * SizeSteps * (freq - minFreq) / range + 10, a half rounded up
sizeTenths(freq, minFreq, range) ==
    (20 * SizeSteps * (freq - minFreq) + 20 * range + range) \div (2 * range)

\* the Map of word to size (in tenths) as a function
normalizeToSizeScale(frequency) ==
    IF Len(frequency) = 0 THEN << >>
    ELSE LET frequencies == { frequency[k].freq : k \in 1..Len(frequency) }
             maxFreq == Max(frequencies)
             minFreq == Min(frequencies)
             range == IF maxFreq - minFreq = 0 THEN 1 ELSE maxFreq - minFreq
         IN Fn([ w \in { frequency[k].word : k \in 1..Len(frequency) } |->
                   sizeTenths(frequency[CHOOSE k \in 1..Len(frequency) : frequency[k].word = w].freq,
                              minFreq, range) ])

colors == << "#3B82F6", "#8B5CF6", "#EC4899", "#F59E0B", "#EF4444" >>

\* colors[Math.min(Math.floor(size) - 1, 4)], the size in tenths
generateColor(size) == colors[Min({ size \div 10 - 1, 4 }) + 1]

\* .sort((a, b) => b[1] - a[1]).slice(0, maxWords)
topWords(frequency, maxWords) ==
    LET sorted == sortStable(Tup([ k \in 1..Len(frequency) |->
                     [ key |-> 0 - frequency[k].freq, item |-> frequency[k] ] ]))
    IN sliceFirst(Tup([ k \in 1..Len(sorted) |-> sorted[k].item ]), maxWords)

cloudItems(sortedWords, sizeMap) ==
    Tup([ k \in 1..Len(sortedWords) |->
            [ word |-> sortedWords[k].word,
              frequency |-> sortedWords[k].freq,
              size |-> sizeMap[sortedWords[k].word],
              color |-> generateColor(sizeMap[sortedWords[k].word]) ] ])

cloudOf(words, frequency, maxWords, now) ==
    [ words |-> cloudItems(topWords(frequency, maxWords), normalizeToSizeScale(frequency)),
      totalWords |-> Len(words),
      uniqueWords |-> Len(frequency),
      generatedAt |-> now ]

cloudOfWords(words, maxWords, language, now) ==
    cloudOf(words, calculateWordFrequencyCloud(words, language), maxWords, now)

\* now is the value of Date.now().  A language that names a property the stop
\* word table inherits makes stopWords.has throw, and the catch block returns
\* the empty cloud.
generateWordCloud(text, maxWords, language, now) ==
    IF language \in OBJECT_PROTOTYPE_KEYS
    THEN [ words |-> << >>, totalWords |-> 0, uniqueWords |-> 0, generatedAt |-> now ]
    ELSE cloudOfWords(tokenizeText(text, language), maxWords, language, now)

EnoughWordsEnglish == 20
EnoughWordsOther == 10

hasEnoughContentForWordCloud(text, language) ==
    Len(tokenizeText(text, language))
        >= (IF language = "en" THEN EnoughWordsEnglish ELSE EnoughWordsOther)


MaxRepeat == 10

RECURSIVE Repeat(_, _)
Repeat(s, n) == IF n = 0 THEN "" ELSE s \o Repeat(s, n - 1)

\* "Budget" a times, "plan," b times, then nothing or a tail of words that
\* cleaning shortens; or nothing but the stop word "The", 2a times
WcTexts ==
    { Repeat("Budget ", a) \o Repeat("plan, ", b) \o tail :
        a \in 0..MaxRepeat, b \in 0..MaxRepeat,
        tail \in { "", "of q3 [x] the deadline\n" } }
    \cup { Repeat("The ", 2 * a) : a \in 1..MaxRepeat }

WcLanguages == { "en", "hi", "fr" }

WcMaxWords == { 1, 30 }

WcClock == { 1, 2 }

WcInit ==
    /\ wcText \in WcTexts
    /\ wcLang \in WcLanguages
    /\ wcMax \in WcMaxWords
    /\ wcOut = << >>
    /\ wcEnough = << >>
    /\ SumIdle
    /\ SenIdle
    /\ FilIdle
    /\ ExpIdle
    /\ SrIdle
    /\ SsIdle
    /\ TagIdle
    /\ VocIdle
    /\ RepIdle
    /\ UpIdle
    /\ FoldIdle
    /\ IdxIdle

GenerateWordCloud ==
    /\ wcOut = << >>
    /\ \E now \in WcClock : wcOut' = << generateWordCloud(wcText, wcMax, wcLang, now) >>
    /\ UNCHANGED << wcText, wcLang, wcMax, wcEnough, sumVars, senVars, filVars, expVars,
                    srVars, ssVars, tagVars, vocVars, repVars, upVars, foldVars, idxVars >>

HasEnoughContentForWordCloud ==
    /\ wcEnough = << >>
    /\ wcEnough' = << hasEnoughContentForWordCloud(wcText, wcLang) >>
    /\ UNCHANGED << wcText, wcLang, wcMax, wcOut, sumVars, senVars, filVars, expVars,
                    srVars, ssVars, tagVars, vocVars, repVars, upVars, foldVars, idxVars >>

WcNext == GenerateWordCloud \/ HasEnoughContentForWordCloud

WcSpec == WcInit /\ [][WcNext]_vars


\* the counted words of the text and their lowest and highest frequency
CloudFrequencies ==
    { e.freq : e \in Range(calculateWordFrequencyCloud(tokenizeText(wcText, wcLang), wcLang)) }

\* size (in tenths) is (freq - min) / (max - min) * 4 + 1 to the nearest tenth
IsScaledSize(size, freq, minFreq, maxFreq) ==
    /\ 2 * (maxFreq - minFreq) * size - (80 * (freq - minFreq) + 20 * (maxFreq - minFreq))
           <= maxFreq - minFreq
    /\ (80 * (freq - minFreq) + 20 * (maxFreq - minFreq)) - 2 * (maxFreq - minFreq) * size
           <= maxFreq - minFreq

Palette == { "#3B82F6", "#8B5CF6", "#EC4899", "#F59E0B", "#EF4444" }

\* C9: every item of the word cloud has the size (freq - min) / (max - min) * 4 + 1
\* rounded to one decimal, min and max the lowest and highest word frequency;
\* the size is within [1, 5], all sizes are equal when all frequencies are
\* equal, and the color is one of the five palette entries.
C9_SizeAndColor ==
    wcOut # << >> =>
        LET frequencies == CloudFrequencies
            minFreq == IF frequencies = {} THEN 0 ELSE Min(frequencies)
            maxFreq == IF frequencies = {} THEN 0 ELSE Max(frequencies)
        IN \A k \in 1..Len(wcOut[1].words) :
               LET item == wcOut[1].words[k]
               IN /\ item.size >= 10 /\ item.size <= 50
                  /\ item.color \in Palette
                  /\ minFreq < maxFreq =>
                         IsScaledSize(item.size, item.frequency, minFreq, maxFreq)
                  /\ minFreq = maxFreq => item.size = wcOut[1].words[1].size

\* a cloud of three words of three frequencies, the middle size not a whole number
C9_Witness ==
    /\ wcOut # << >>
    /\ Len(wcOut[1].words) = 3
    /\ wcOut[1].words[1].size = 50
    /\ wcOut[1].words[3].size = 10
    /\ wcOut[1].words[2].size % 10 # 0

\* the pieces of the text between whitespace that keep at least minLen
\* characters: letters, apostrophes, hyphens and opening brackets
MeaningfulWords(text, minLen) ==
    { run \in Runs(text, CharsOf(text) \ SpaceSet) :
        Cardinality({ i \in run[1]..run[2] : Ch(text, i) \in CloudCharSet }) >= minLen }

\* C10: hasEnoughContentForWordCloud is true exactly when the text has at least
\* 20 meaningful words for 'en', at least 10 for another language.
C10_EnoughContent ==
    wcEnough # << >> =>
        (wcEnough[1] <=>
            IF wcLang = "en" THEN Cardinality(MeaningfulWords(wcText, 3)) >= 20
            ELSE Cardinality(MeaningfulWords(wcText, 1)) >= 10)

\* an English text of exactly 20 meaningful words among shorter ones
C10_Witness ==
    /\ wcEnough = << TRUE >>
    /\ wcLang = "en"
    /\ Cardinality(MeaningfulWords(wcText, 3)) = 20
    /\ Cardinality(MeaningfulWords(wcText, 1)) > 20

COMMON_TOPICS ==
    << [ topic |-> "marketing",
         keywords |-> << "marketing", "campaign", "brand", "promotion", "seo", "content",
                         "audience" >> ],
       [ topic |-> "finance",
         keywords |-> << "budget", "cost", "expense", "revenue", "financial", "money",
                         "payment", "invoice" >> ],
       [ topic |-> "meeting",
         keywords |-> << "meeting", "discuss", "decision", "agenda", "action item",
                         "follow-up" >> ],
       [ topic |-> "project",
         keywords |-> << "project", "deadline", "task", "milestone", "deliverable",
                         "scope" >> ],
       [ topic |-> "client",
         keywords |-> << "client", "customer", "customer", "relationship", "feedback",
                         "requirement" >> ],
       [ topic |-> "technology",
         keywords |-> << "tech", "software", "development", "api", "database", "server",
                         "cloud" >> ],
       [ topic |-> "sales",
         keywords |-> << "sale", "deal", "lead", "pipeline", "opportunity", "close",
                         "quota" >> ],
       [ topic |-> "hr",
         keywords |-> << "hiring", "recruitment", "performance", "employee", "team",
                         "culture" >> ] >>

\* STOP_WORDS of the tagging module
STOP_WORDS_TAGS ==
    { "the", "a", "an", "and", "or", "but", "in", "on", "at", "to", "for", "of", "with", "by",
      "from", "is", "am", "are", "was", "were", "be", "been", "being", "have", "has", "had",
      "do", "does", "did", "will", "would", "should", "could", "may", "might", "can", "must",
      "it", "this", "that", "these", "those", "i", "you", "he", "she", "we", "they" }

\* \b of a regular expression at the gap in front of position i (1..Len(s)+1):
\* exactly one of the two neighbours is a word character
boundaryBefore(s, i) ==
    LET left == i > 1 /\ IsWordChar(Ch(s, i - 1))
        right == i <= Len(s) /\ IsWordChar(Ch(s, i))
    IN left # right

\* the literal p stands in s from position i on
matchesAt(s, i, p) == i + Len(p) - 1 <= Len(s) /\ SubSeq(s, i, i + Len(p) - 1) = p

\* \d{n} from position i on
digitsAt(s, i, n) == i + n - 1 <= Len(s) /\ \A k \in i..(i + n - 1) : Ch(s, k) \in CharsOf(Digits)

\* [/-] at position i
dateSeparatorAt(s, i) == i <= Len(s) /\ Ch(s, i) \in { "/", "-" }

\* the last position of a match of /\b(\d{1,2}[/-]\d{1,2}[/-]\d{2,4})\b/ that
\* starts at position i, 0 when there is none (the greedy choice is the
\* longest; the boundaries leave at most one)
numericDateEnd(s, i) ==
    LET ends == { i + a + b + c + 1 : a \in 1..2, b \in 1..2, c \in 2..4 }
        fits(a, b, c) ==
            /\ digitsAt(s, i, a)
            /\ dateSeparatorAt(s, i + a)
            /\ digitsAt(s, i + a + 1, b)
            /\ dateSeparatorAt(s, i + a + b + 1)
            /\ digitsAt(s, i + a + b + 2, c)
            /\ boundaryBefore(s, i + a + b + c + 2)
        found == { e \in ends : \E a \in 1..2, b \in 1..2, c \in 2..4 :
                                    e = i + a + b + c + 1 /\ fits(a, b, c) }
    IN IF boundaryBefore(s, i) /\ found # {} THEN Max(found) ELSE 0

MONTH_NAMES ==
    << "January", "February", "March", "April", "May", "June", "July", "August",
       "September", "October", "November", "December", "Jan", "Feb", "Mar", "Apr", "May",
       "Jun", "Jul", "Aug", "Sep", "Oct", "Nov", "Dec" >>

MonthNamesLower == { toLowerCase(MONTH_NAMES[k]) : k \in 1..Len(MONTH_NAMES) }

ORDINAL_SUFFIXES == { "st", "nd", "rd", "th" }

\* the last position of a match of
\* /\b(January|...|Dec)\s+\d{1,2}(?:st|nd|rd|th)?\b/i that starts at position
\* i of s, 0 when there is none; lower is s in lower case
monthDateEnd(s, lower, i) ==
    LET afterName == { i + Len(m) : m \in { m \in MonthNamesLower : matchesAt(lower, i, m) } }
        digitsFrom == { RunEnd(s, j, SpaceSet) + 1 : j \in { j \in afterName : j <= Len(s) /\ IsSpace(Ch(s, j)) } }
        found == { e \in 1..Len(s) :
                     \E from \in digitsFrom, d \in 1..2, suffix \in { 0, 2 } :
                         /\ e = from + d + suffix - 1
                         /\ digitsAt(s, from, d)
                         /\ suffix = 2 => SubSeq(lower, from + d, from + d + 1) \in ORDINAL_SUFFIXES
                         /\ boundaryBefore(s, e + 1) }
    IN IF boundaryBefore(s, i) /\ found # {} THEN Max(found) ELSE 0

WEEKDAYS == << "Monday", "Tuesday", "Wednesday", "Thursday", "Friday", "Saturday", "Sunday" >>

WeekdaysLower == { toLowerCase(WEEKDAYS[k]) : k \in 1..Len(WEEKDAYS) }

\* the last position of a match of /\b(Monday|...|Sunday)\b/i at position i
weekdayEnd(s, lower, i) ==
    LET found == { i + Len(d) - 1 : d \in { d \in WeekdaysLower :
                         matchesAt(lower, i, d) /\ boundaryBefore(s, i + Len(d)) } }
    IN IF boundaryBefore(s, i) /\ found # {} THEN Max(found) ELSE 0

\* text.match(pattern) for a global pattern: the matches from left to right,
\* each search going on behind the match before; endAt[i] is the last position
\* of the match that starts at i, 0 when none does
RECURSIVE matchesFrom(_, _, _)
matchesFrom(s, endAt, from) ==
    LET starts == { i \in from..Len(s) : endAt[i] > 0 }
    IN IF starts = {} THEN << >>
       ELSE LET i == Min(starts)
            IN << SubSeq(s, i, endAt[i]) >> \o matchesFrom(s, endAt, endAt[i] + 1)

MaxDates == 5
MaxProperNouns == 5
MaxEntities == 3
TagLimit == 10

extractDates(text) ==
    LET lower == toLowerCase(text)
        numeric == matchesFrom(text, Fn([ i \in 1..Len(text) |-> numericDateEnd(text, i) ]), 1)
        months == matchesFrom(text, Fn([ i \in 1..Len(text) |-> monthDateEnd(text, lower, i) ]), 1)
        weekdays == matchesFrom(text, Fn([ i \in 1..Len(text) |-> weekdayEnd(text, lower, i) ]), 1)
    IN sliceFirst(addAll(<< >>, numeric \o months \o weekdays), MaxDates)

\* word.replace(/[^\w]/g, '')
RECURSIVE keepWordChars(_)
keepWordChars(s) ==
    IF Len(s) = 0 THEN ""
    ELSE IF Len(s) = 1 THEN (IF IsWordChar(s) THEN s ELSE "")
    ELSE LET h == Len(s) \div 2
         IN keepWordChars(SubSeq(s, 1, h)) \o keepWordChars(SubSeq(s, h + 1, Len(s)))

\* word[0] === word[0].toUpperCase() for a non-empty word of word characters:
\* true of every first character but a lower-case letter
startsUpperCase(word) == ~(Ch(word, 1) \in CharsOf(LowerLetters))

extractProperNouns(text) ==
    LET words == splitWhitespace(text)
        originalWord == Tup([ k \in 1..Len(words) |-> keepWordChars(words[k]) ])
        nouns == filterAt(originalWord,
                          { k \in 1..Len(words) :
                              /\ Len(originalWord[k]) > 2
                              /\ startsUpperCase(originalWord[k])
                              /\ ~(toLowerCase(originalWord[k]) \in STOP_WORDS_TAGS) })
    IN sliceFirst(addAll(<< >>, nouns), MaxProperNouns)

hasKeyword(textLower, keyword) ==
    \E i \in 1..Len(textLower) :
        /\ matchesAt(textLower, i, keyword)
        /\ boundaryBefore(textLower, i)
        /\ boundaryBefore(textLower, i + Len(keyword))

extractTopics(text) ==
    LET textLower == toLowerCase(text)
        hit == { k \in 1..Len(COMMON_TOPICS) :
                   \E j \in 1..Len(COMMON_TOPICS[k].keywords) :
                       hasKeyword(textLower, COMMON_TOPICS[k].keywords[j]) }
    IN Tup([ n \in 1..Cardinality(hit) |-> COMMON_TOPICS[Nth(hit, n)].topic ])

\* the forEach of extractEntities from the k-th cleaned word on: a run of
\* capitalised words is kept when a word that is not capitalised ends it
RECURSIVE entitiesFrom(_, _, _, _)
entitiesFrom(cleanWord, k, currentEntity, entities) ==
    IF k > Len(cleanWord) THEN entities
    ELSE IF cleanWord[k] # "" /\ startsUpperCase(cleanWord[k])
    THEN entitiesFrom(cleanWord, k + 1, Append(currentEntity, cleanWord[k]), entities)
    ELSE entitiesFrom(cleanWord, k + 1, << >>,
                      IF Len(currentEntity) > 1 /\ Len(join(currentEntity, " ")) > 3
                      THEN Append(entities, join(currentEntity, " "))
                      ELSE entities)

extractEntities(text) ==
    LET words == splitWhitespace(text)
        cleanWord == Tup([ k \in 1..Len(words) |-> keepWordChars(words[k]) ])
    IN sliceFirst(addAll(<< >>, entitiesFrom(cleanWord, 1, << >>, << >>)), MaxEntities)

combinedTags_datesFirst(topics, entities, properNouns, dates) ==
    dates \o topics \o entities \o properNouns

\* [...topics, ...entities, ...properNouns, ...dates]
combinedTags(topics, entities, properNouns, dates) ==
    topics \o entities \o properNouns \o dates

generateTags(transcription) ==
    IF transcription = "" THEN << >>
    ELSE sliceFirst(addAll(<< >>, combinedTags(extractTopics(transcription),
                                               extractEntities(transcription),
                                               extractProperNouns(transcription),
                                               extractDates(transcription))),
                    TagLimit)

MaxTagChunks == 3

TagChunks ==
    { "marketing budget meeting project ",
      "client api deal team ",
      "We met John Smith and Acme Corp in New York on Monday, ",
      "Friday Jan 5th, 12/05/2024 ok budgets\n",
      "Al Roe" }

TagTexts == Concats(TagChunks, MaxTagChunks)

TagInit ==
    /\ tagText \in TagTexts
    /\ tagOut = << >>
    /\ SumIdle
    /\ SenIdle
    /\ FilIdle
    /\ ExpIdle
    /\ SrIdle
    /\ SsIdle
    /\ WcIdle
    /\ VocIdle
    /\ RepIdle
    /\ UpIdle
    /\ FoldIdle
    /\ IdxIdle

GenerateTags ==
    /\ tagOut = << >>
    /\ tagOut' = << generateTags(tagText) >>
    /\ UNCHANGED << tagText, sumVars, senVars, filVars, expVars, srVars, ssVars, wcVars,
                    vocVars, repVars, upVars, foldVars, idxVars >>

TagNext == GenerateTags

TagSpec == TagInit /\ [][TagNext]_vars


\* the positions of a sequence that hold the first occurrence of their value
FirstOccurrences(a) == { i \in 1..Len(a) : \A j \in 1..(i - 1) : a[j] # a[i] }

\* C12: generateTags returns the first 10 distinct entries of topics, then
\* entities, then proper nouns, then dates: at most 10 tags, none twice, every
\* detected topic among them; an entry is left out only when the result is
\* full, and an entry is in the result only together with every entry that
\* stands before its first occurrence in that order.
C12_TagPriority ==
    tagOut # << >> =>
        LET tags == tagOut[1]
            topics == extractTopics(tagText)
            all == topics \o extractEntities(tagText)
                       \o extractProperNouns(tagText) \o extractDates(tagText)
            first == FirstOccurrences(all)
            present == { tags[k] : k \in 1..Len(tags) }
        IN /\ Len(tags) <= 10
           /\ Len(tags) = Min({ 10, Cardinality(first) })
           /\ \A k \in 1..Len(tags) : tags[k] = all[Nth(first, k)]
           /\ \A j, k \in 1..Len(tags) : tags[j] = tags[k] => j = k
           /\ \A k \in 1..Len(topics) : topics[k] \in present
           /\ \A i \in first :
                  /\ ~(all[i] \in present) => Len(tags) = 10
                  /\ all[i] \in present => \A j \in 1..(i - 1) : all[j] \in present

\* eight topics and three entities: the cap drops the third entity, every
\* proper noun and every date
C12_Witness ==
    /\ tagOut # << >>
    /\ Len(tagOut[1]) = 10
    /\ Len(extractTopics(tagText)) = 8
    /\ Len(extractEntities(tagText)) = 3
    /\ tagOut[1][10] = extractEntities(tagText)[2]
    /\ Len(extractDates(tagText)) > 0


(***************************************************************************)
(* Vocabulary insights (src/utils/vocabularyInsights.ts)                   *)
(***************************************************************************)
STOP_WORDS_VOCABULARY ==
    { "a", "about", "above", "after", "again", "against", "all", "am", "an", "and",
      "any", "are", "as", "at", "be", "because", "been", "before", "being", "below",
      "between", "both", "but", "by", "can", "could", "did", "do", "does", "doing",
      "down", "during", "each", "few", "for", "from", "further", "had", "has", "have",
      "having", "he", "her", "here", "hers", "herself", "him", "himself", "his", "how",
      "i", "if", "in", "into", "is", "it", "its", "itself", "just", "me", "might",
      "more", "most", "must", "my", "myself", "no", "nor", "not", "of", "off", "on",
      "once", "only", "or", "other", "our", "ours", "ourselves", "out", "over", "own",
      "same", "should", "so", "some", "such", "than", "that", "the", "their", "theirs",
      "them", "themselves", "then", "there", "these", "they", "this", "those", "through",
      "to", "too", "under", "until", "up", "very", "was", "we", "were", "what", "when",
      "where", "which", "while", "who", "whom", "why", "will", "with", "you", "your" }

VocabularyCharSet == WordCharSet \cup { "'", "-" }

\* word.replace(/[^\w'-]/g, '')
RECURSIVE keepVocabularyChars(_)
keepVocabularyChars(s) ==
    IF Len(s) = 0 THEN ""
    ELSE IF Len(s) = 1 THEN (IF s \in VocabularyCharSet THEN s ELSE "")
    ELSE LET h == Len(s) \div 2
         IN keepVocabularyChars(SubSeq(s, 1, h)) \o keepVocabularyChars(SubSeq(s, h + 1, Len(s)))

tokenizeWordsVocabulary(text) ==
    LET pieces == splitWhitespace(toLowerCase(text))
    IN nonEmpty(Tup([ k \in 1..Len(pieces) |-> keepVocabularyChars(pieces[k]) ]))

\* text.split(/[.!?]+/).map(s => s.trim()).filter(s => s.length > 0)
tokenizeSentencesVocabulary(text) ==
    nonEmpty(mapTrim(splitAt(text, Runs(text, { ".", "!", "?" }))))

\* the word length a word has to exceed to enter the frequency map
MinCountedLength == 2

\* the Map wordFrequency as the sequence of its entries, in insertion order
wordFrequencyOf(words) ==
    LET keys == addAll(<< >>, filterAt(words, { i \in 1..Len(words) :
                                                  Len(words[i]) > MinCountedLength }))
    IN Tup([ k \in 1..Len(keys) |-> [ word |-> keys[k], freq |-> Count(words, keys[k]) ] ])

\* .sort((a, b) => b[1] - a[1])
sortByFrequency(entries) ==
    LET sorted == sortStable(Tup([ k \in 1..Len(entries) |->
                     [ key |-> 0 - entries[k].freq, item |-> entries[k] ] ]))
    IN Tup([ k \in 1..Len(sorted) |-> sorted[k].item ])

\* .sort((a, b) => b[0].length - a[0].length)
sortByLength(entries) ==
    LET sorted == sortStable(Tup([ k \in 1..Len(entries) |->
                     [ key |-> 0 - Len(entries[k].word), item |-> entries[k] ] ]))
    IN Tup([ k \in 1..Len(sorted) |-> sorted[k].item ])

wordAndFrequency(entries) ==
    Tup([ k \in 1..Len(entries) |-> [ word |-> entries[k].word, frequency |-> entries[k].freq ] ])

VOWELS == CharsOf("aeiouy")

estimateSyllables(word) ==
    LET lowerWord == toLowerCase(word)
        groups == Cardinality({ i \in 1..Len(lowerWord) :
                                  /\ Ch(lowerWord, i) \in VOWELS
                                  /\ (i = 1 \/ ~(Ch(lowerWord, i - 1) \in VOWELS)) })
        count == groups - (IF endsWith(lowerWord, "e") THEN 1 ELSE 0)
                        + (IF endsWith(lowerWord, "le") /\ Len(lowerWord) > 2 THEN 1 ELSE 0)
    IN Max({ 1, count })

\* the numerator of estimateAverageSyllables
totalSyllables(words) == SumSet(1..Len(words), Fn([ i \in 1..Len(words) |-> estimateSyllables(words[i]) ]))

\* Math.round(num / den * scale) for num >= 0, den > 0
roundedRatio(num, den, scale) == (2 * scale * num + den) \div (2 * den)

MostCommonCount == 10
RareWordsCount == 10
RareFrequency == 2

getEmptyInsights_richnessOne(now) ==
    [ totalWords |-> 0, uniqueWords |-> 0, uniqueMeaningfulWords |-> 0,
      vocabularyRichness |-> 1000, averageSentenceLength |-> 0, averageWordLength |-> 0,
      totalSentences |-> 0, mostCommonWords |-> << >>, rareWords |-> << >>,
      readabilityIndex |-> 0, longestWord |-> "", shortestWord |-> "",
      analysisDate |-> now, notesAnalyzed |-> 0 ]

\* now is the value of Date.now()
getEmptyInsights(now) ==
    [ totalWords |-> 0, uniqueWords |-> 0, uniqueMeaningfulWords |-> 0,
      vocabularyRichness |-> 0, averageSentenceLength |-> 0, averageWordLength |-> 0,
      totalSentences |-> 0, mostCommonWords |-> << >>, rareWords |-> << >>,
      readabilityIndex |-> 0, longestWord |-> "", shortestWord |-> "",
      analysisDate |-> now, notesAnalyzed |-> 0 ]

\* lines 81-146.  vocabularyRichness is in thousandths, averageSentenceLength,
\* averageWordLength and readabilityIndex in tenths; the readability
\* 0.39 * T / S + 11.8 * Y / T - 15.59 is (39 T T + 1180 Y S - 1559 S T) / (100 S T)
\* for T words, S sentences (1 when there is none) and Y syllables.
insightsOf(words, sentences, notesAnalyzed, now) ==
    LET wordFrequency == wordFrequencyOf(words)
        sortedWords == sortByFrequency(wordFrequency)
        rare == filterAt(sortedWords, { k \in 1..Len(sortedWords) :
                                          sortedWords[k].freq <= RareFrequency })
        uniqueWords == Len(wordFrequency)
        totalWords == Len(words)
        sentenceCount == IF Len(sentences) = 0 THEN 1 ELSE Len(sentences)
        letters == SumSet(1..Len(words), Fn([ i \in 1..Len(words) |-> Len(words[i]) ]))
        sortedByLength == sortByLength(sortedWords)
        syllables == totalSyllables(words)
        readability == 39 * totalWords * totalWords + 1180 * syllables * sentenceCount
                           - 1559 * sentenceCount * totalWords
    IN [ totalWords |-> totalWords,
         uniqueWords |-> uniqueWords,
         uniqueMeaningfulWords |->
             Cardinality({ k \in 1..Len(wordFrequency) :
                             ~(wordFrequency[k].word \in STOP_WORDS_VOCABULARY) }),
         vocabularyRichness |-> roundedRatio(uniqueWords, totalWords, 1000),
         averageSentenceLength |-> roundedRatio(totalWords, sentenceCount, 10),
         averageWordLength |-> roundedRatio(letters, totalWords, 10),
         totalSentences |-> Len(sentences),
         mostCommonWords |-> wordAndFrequency(sliceFirst(sortedWords, MostCommonCount)),
         rareWords |-> wordAndFrequency(sliceFirst(rare, RareWordsCount)),
         readabilityIndex |->
             IF readability <= 0 THEN 0
             ELSE roundedRatio(readability, 100 * sentenceCount * totalWords, 10),
         longestWord |-> IF Len(sortedByLength) = 0 THEN "" ELSE sortedByLength[1].word,
         shortestWord |->
             IF Len(sortedByLength) = 0 THEN "" ELSE sortedByLength[Len(sortedByLength)].word,
         analysisDate |-> now,
         notesAnalyzed |-> notesAnalyzed ]

\* notes are given by their transcriptions
analyzeVocabulary(notes, now) ==
    IF Len(notes) = 0 THEN getEmptyInsights(now)
    ELSE LET allText == join(notes, " ")
             words == tokenizeWordsVocabulary(allText)
         IN IF Len(words) = 0 THEN getEmptyInsights(now)
            ELSE insightsOf(words, tokenizeSentencesVocabulary(allText), Len(notes), now)

MaxVocNotes == 2

VocTranscriptions ==
    { "", " \n", "we go to it", "The cat sat on a mat.", "Budget plans grow! Budget plans?",
      "a table, the apple; little tables", "well-known don't", "it is", "rhythm" }

VocNotes == SeqsUpTo(VocTranscriptions, MaxVocNotes)

VocClock == { 1, 2 }

VocInit ==
    /\ vocNotes \in VocNotes
    /\ vocOut = << >>
    /\ SumIdle
    /\ SenIdle
    /\ FilIdle
    /\ ExpIdle
    /\ SrIdle
    /\ SsIdle
    /\ WcIdle
    /\ TagIdle
    /\ RepIdle
    /\ UpIdle
    /\ FoldIdle
    /\ IdxIdle

AnalyzeVocabulary ==
    /\ vocOut = << >>
    /\ \E now \in VocClock : vocOut' = << analyzeVocabulary(vocNotes, now) >>
    /\ UNCHANGED << vocNotes, sumVars, senVars, filVars, expVars, srVars, ssVars, wcVars,
                    tagVars, repVars, upVars, foldVars, idxVars >>

VocNext == AnalyzeVocabulary

VocSpec == VocInit /\ [][VocNext]_vars

\* C13: the vocabularyRichness analyzeVocabulary reports is the number of
\* distinct words over the number of words of the concatenated transcripts
\* (to three decimals): it lies in [0, 1] and is 1.0 when no word occurs twice.
C13_Richness ==
    (vocOut # << >> /\ Len(vocNotes) > 0) =>
        LET words == tokenizeWordsVocabulary(join(vocNotes, " "))
            distinct == Cardinality(Range(words))
            richness == vocOut[1].vocabularyRichness
        IN /\ richness >= 0 /\ richness <= 1000
           /\ Len(words) > 0 =>
                  /\ richness = roundedRatio(distinct, Len(words), 1000)
                  /\ distinct = Len(words) => richness = 1000


(***************************************************************************)
(* The six analyzers applied to one transcript, each at most twice, in any *)
(* order; the clock never runs backwards                                   *)
(***************************************************************************)
AnalyzerNames ==
    { "generateSummary", "analyzeSentiment", "analyzeFillerWords", "generateWordCloud",
      "generateTags", "analyzeVocabulary" }

\* the defaults of the optional parameters
DefaultTargetSentences == 3
DefaultMaxWords == 30
DefaultLanguage == "en"

MaxRepCalls == 6

RepTexts ==
    { "", " \n\t ", "Um, not bad. Al Smith met us Monday!" }

RepClock == { 1, 2 }

RepInit ==
    /\ repText \in RepTexts
    /\ repNow = 1
    /\ repOut = [ a \in AnalyzerNames |-> [ first |-> << >>, second |-> << >> ] ]
    /\ SumIdle
    /\ SenIdle
    /\ FilIdle
    /\ ExpIdle
    /\ SrIdle
    /\ SsIdle
    /\ WcIdle
    /\ TagIdle
    /\ VocIdle
    /\ UpIdle
    /\ FoldIdle
    /\ IdxIdle

RepCalls ==
    Cardinality({ a \in AnalyzerNames : repOut[a].first # << >> })
        + Cardinality({ a \in AnalyzerNames : repOut[a].second # << >> })

mayCall(analyzer) == repOut[analyzer].second = << >> /\ RepCalls < MaxRepCalls

\* the results after one more call of the analyzer
withResult(out, analyzer, result) ==
    IF out[analyzer].first = << >>
    THEN [ out EXCEPT ![analyzer].first = << result >> ]
    ELSE [ out EXCEPT ![analyzer].second = << result >> ]

repOthers ==
    << sumVars, senVars, filVars, expVars, srVars, ssVars, wcVars, tagVars, vocVars,
       upVars, foldVars, idxVars >>

RepGenerateSummary ==
    /\ mayCall("generateSummary")
    /\ \E now \in { t \in RepClock : t >= repNow } :
           /\ repOut' = withResult(repOut, "generateSummary",
                                   generateSummary(repText, DefaultTargetSentences, now))
           /\ repNow' = now
    /\ UNCHANGED << repText, repOthers >>

RepAnalyzeSentiment ==
    /\ mayCall("analyzeSentiment")
    /\ \E now \in { t \in RepClock : t >= repNow } :
           /\ repOut' = withResult(repOut, "analyzeSentiment", analyzeSentiment(repText, now))
           /\ repNow' = now
    /\ UNCHANGED << repText, repOthers >>

RepAnalyzeFillerWords ==
    /\ mayCall("analyzeFillerWords")
    /\ repOut' = withResult(repOut, "analyzeFillerWords", analyzeFillerWords(repText))
    /\ UNCHANGED << repText, repNow, repOthers >>

RepGenerateWordCloud ==
    /\ mayCall("generateWordCloud")
    /\ \E now \in { t \in RepClock : t >= repNow } :
           /\ repOut' = withResult(repOut, "generateWordCloud",
                                   generateWordCloud(repText, DefaultMaxWords, DefaultLanguage, now))
           /\ repNow' = now
    /\ UNCHANGED << repText, repOthers >>

RepGenerateTags ==
    /\ mayCall("generateTags")
    /\ repOut' = withResult(repOut, "generateTags", generateTags(repText))
    /\ UNCHANGED << repText, repNow, repOthers >>

RepAnalyzeVocabulary ==
    /\ mayCall("analyzeVocabulary")
    /\ \E now \in { t \in RepClock : t >= repNow } :
           /\ repOut' = withResult(repOut, "analyzeVocabulary",
                                   analyzeVocabulary(<< repText >>, now))
           /\ repNow' = now
    /\ UNCHANGED << repText, repOthers >>

RepNext ==
    \/ RepGenerateSummary
    \/ RepAnalyzeSentiment
    \/ RepAnalyzeFillerWords
    \/ RepGenerateWordCloud
    \/ RepGenerateTags
    \/ RepAnalyzeVocabulary

RepSpec == RepInit /\ [][RepNext]_vars


\* the results the analyzer has returned so far
ResultsOf(analyzer) == repOut[analyzer].first \o repOut[analyzer].second

\* C14: for an empty or whitespace-only transcript every analyzer returns its
\* empty result: generateSummary the 'No content' marker, no sentences and
\* word count 0; analyzeSentiment compound 0, label Neutral and confidence 0;
\* analyzeFillerWords zero totals and empty collections; generateWordCloud no
\* words; generateTags no tags; analyzeVocabulary all-zero insights.
C14_EmptyResults ==
    (repText # None /\ trim(repText) = "") =>
        /\ \A k \in 1..Len(ResultsOf("generateSummary")) :
               LET r == ResultsOf("generateSummary")[k]
               IN r.summary = "No content to summarize." /\ r.sentences = << >> /\ r.wordCount = 0
        /\ \A k \in 1..Len(ResultsOf("analyzeSentiment")) :
               LET r == ResultsOf("analyzeSentiment")[k]
               IN /\ r.overall.compound.n = 0
                  /\ r.sentiment = "Neutral"
                  /\ r.confidence.n = 0
                  /\ r.sentences = << >> /\ r.keyPhrases = << >>
        /\ \A k \in 1..Len(ResultsOf("analyzeFillerWords")) :
               LET r == ResultsOf("analyzeFillerWords")[k]
               IN /\ r.totalFillerWords = 0
                  /\ r.fillerWordPercentage = 0
                  /\ r.averageFillerWordsPerSentence = 0
                  /\ r.fillerWords = << >>
                  /\ r.highlightedText = << >>
                  /\ r.fillerWordFrequency = << >>
                  /\ r.mostCommonFiller = None
        /\ \A k \in 1..Len(ResultsOf("generateWordCloud")) :
               LET r == ResultsOf("generateWordCloud")[k]
               IN r.words = << >> /\ r.totalWords = 0 /\ r.uniqueWords = 0
        /\ \A k \in 1..Len(ResultsOf("generateTags")) :
               ResultsOf("generateTags")[k] = << >>
        /\ \A k \in 1..Len(ResultsOf("analyzeVocabulary")) :
               LET r == ResultsOf("analyzeVocabulary")[k]
               IN /\ r.totalWords = 0 /\ r.uniqueWords = 0 /\ r.uniqueMeaningfulWords = 0
                  /\ r.vocabularyRichness = 0 /\ r.averageSentenceLength = 0
                  /\ r.averageWordLength = 0 /\ r.totalSentences = 0
                  /\ r.readabilityIndex = 0
                  /\ r.mostCommonWords = << >> /\ r.rareWords = << >>
                  /\ r.longestWord = "" /\ r.shortestWord = ""

\* every analyzer has returned for a transcript of whitespace
C14_Witness ==
    /\ repText # None
    /\ repText # ""
    /\ trim(repText) = ""
    /\ \A a \in AnalyzerNames : repOut[a].first # << >>

\* a result without its time stamp (summaries and clouds carry generatedAt,
\* sentiment and vocabulary results analysisDate)
Unstamped(analyzer, result) ==
    IF analyzer \in { "generateSummary", "generateWordCloud" }
    THEN [ result EXCEPT !.generatedAt = 0 ]
    ELSE IF analyzer \in { "analyzeSentiment", "analyzeVocabulary" }
    THEN [ result EXCEPT !.analysisDate = 0 ]
    ELSE result

TerminatedPieces(text) ==
    nonEmpty(mapTrim(splitAt(text, Runs(text, { ".", "!", "?", "\n" }))))

\* the lines of a text
LinesOf(text) == splitAt(text, { << i, i >> : i \in { i \in 1..Len(text) : Ch(text, i) = "\n" } })

\* C16: the summariser's sentences are the non-empty trimmed pieces of the
\* text between the characters . ! ? and newline (each sentence keeping the
\* terminators that end it); a text of k non-empty lines separated by single
\* newlines, with no other terminator, has k sentences.
C16_SentenceSplit ==
    sumOut # << >> =>
        LET sentences == tokenizeSentences(sumText)
            pieces == TerminatedPieces(sumText)
            lines == LinesOf(sumText)
        IN /\ Len(sentences) = Len(pieces)
           /\ \A k \in 1..Len(sentences) : startsWith(sentences[k], pieces[k])
           /\ (/\ CharsOf(sumText) \cap { ".", "!", "?" } = {}
               /\ \A k \in 1..Len(lines) : trim(lines[k]) # "") =>
                  Len(sentences) = Len(lines)


\* the word-internal characters: letters of any script, apostrophe and hyphen
WordInternalSet == AsciiLetterSet \cup { NonAsciiLetter } \cup { "'", "-" }

\* C17: the tokens of tokenizeWithPositions are, from left to right, exactly
\* the maximal runs of word-internal characters (letters of any script,
\* apostrophes, hyphens); text.substring(start, end) of a token is its word,
\* and no two tokens overlap.
C17_TokensAreWordRuns ==
    filOut # << >> =>
        LET tokens == tokenizeWithPositions(filText)
            runs == Runs(filText, WordInternalSet)
        IN /\ Len(tokens) = Cardinality(runs)
           /\ \A k \in 1..Len(tokens) :
                  /\ << tokens[k].start + 1, tokens[k].end >> \in runs
                  /\ substring(filText, tokens[k].start, tokens[k].end) = tokens[k].word
           /\ \A k \in 1..(Len(tokens) - 1) : tokens[k].end <= tokens[k + 1].start


\* the 0-based offsets at which the lexicon entry stands in the text as whole
\* words, upper and lower case alike: no word-internal character comes right
\* before or right after it
WholeWordOccurrences(text, entry) ==
    { i \in 0..(Len(text) - Len(entry)) :
        /\ substring(toLowerCase(text), i, i + Len(entry)) = entry
        /\ (i = 0 \/ ~(Ch(text, i) \in WordInternalSet))
        /\ (i + Len(entry) = Len(text) \/ ~(Ch(text, i + Len(entry) + 1) \in WordInternalSet)) }

\* C18: every whole-word occurrence of an entry of the filler lexicon, the
\* multi-word entries included, is a reported filler match, unless it lies
\* inside a longer kept match.
C18_EveryLexiconEntryMatched ==
    filOut # << >> =>
        \A entry \in FILLER_WORDS_SET :
            \A i \in WholeWordOccurrences(filText, entry) :
                \E k \in 1..Len(filOut[1].fillerWords) :
                    LET kept == filOut[1].fillerWords[k]
                    IN /\ kept.startIndex <= i
                       /\ i + Len(entry) <= kept.endIndex


\* the candidate matches in the order in which analyzeFillerWords lists them:
\* the phrases, pattern by pattern, then the single words
FillerCandidates(text) == extractFillerPhrases(text) \o extractSingleWordFillers(text)

\* C19: the kept filler matches are ordered by start offset, none of them
\* starts inside the span [startIndex, endIndex) of another one, so that their
\* spans do not overlap, and of the candidates that start at one offset only
\* the first listed can be kept.
C19_KeptMatchesDisjoint ==
    (filOut # << >> /\ Len(trim(filText)) > 0) =>
        LET kept == filOut[1].fillerWords
            candidates == FillerCandidates(filText)
        IN /\ \A j, k \in 1..Len(kept) : j < k => kept[j].startIndex < kept[k].startIndex
           /\ \A j, k \in 1..Len(kept) :
                  j # k => ~(/\ kept[k].startIndex >= kept[j].startIndex
                             /\ kept[k].startIndex < kept[j].endIndex)
           /\ \A j, k \in 1..Len(kept) : j < k => kept[j].endIndex <= kept[k].startIndex
           /\ \A k \in 1..Len(kept) :
                  LET sameStart == { c \in 1..Len(candidates) :
                                       candidates[c].startIndex = kept[k].startIndex }
                  IN /\ sameStart # {}
                     /\ kept[k] = candidates[Min(sameStart)]

\* a phrase and a shorter phrase are candidates at one offset and the first
\* listed, the longer one, is the kept match; a third candidate starts further
\* inside the kept match and is dropped; a later match is kept as well
C19_Witness ==
    /\ filOut # << >>
    /\ LET kept == filOut[1].fillerWords
           candidates == FillerCandidates(filText)
       IN \E c, d, e \in 1..Len(candidates) :
              /\ c < d
              /\ candidates[c].startIndex = candidates[d].startIndex
              /\ candidates[c].category = "phrase"
              /\ candidates[d].category = "phrase"
              /\ Len(candidates[c].word) > Len(candidates[d].word)
              /\ candidates[e].startIndex > candidates[c].startIndex
              /\ candidates[e].startIndex < candidates[c].endIndex
              /\ Len(kept) >= 2
              /\ kept[1] = candidates[c]
              /\ \A k \in 1..Len(kept) : kept[k] # candidates[d] /\ kept[k] # candidates[e]

\* the offset in the text at which segment i of the highlighted text starts
SegmentStart(segments, i) ==
    Len(join(Tup([ k \in 1..(i - 1) |-> segments[k].text ]), ""))

\* C20: for a text that is not blank, the texts of the highlighted segments
\* joined in order are the original text, the segments flagged as filler are
\* the kept matches in order, each at its offsets (as many as
\* totalFillerWords), and no non-filler segment follows another one.
C20_HighlightPartition ==
    (filOut # << >> /\ Len(trim(filText)) > 0) =>
        LET segments == filOut[1].highlightedText
            kept == filOut[1].fillerWords
            flagged == filterAt(Tup([ i \in 1..Len(segments) |-> i ]),
                                { i \in 1..Len(segments) : segments[i].isFillerWord })
        IN /\ join(Tup([ i \in 1..Len(segments) |-> segments[i].text ]), "") = filText
           /\ Len(flagged) = Len(kept)
           /\ Len(flagged) = filOut[1].totalFillerWords
           /\ \A k \in 1..Len(flagged) :
                  /\ k <= Len(kept)
                  /\ segments[flagged[k]].text = kept[k].word
                  /\ segments[flagged[k]].category = kept[k].category
                  /\ SegmentStart(segments, flagged[k]) = kept[k].startIndex
                  /\ SegmentStart(segments, flagged[k] + 1) = kept[k].endIndex
           /\ \A i \in 1..(Len(segments) - 1) :
                  segments[i].isFillerWord \/ segments[i + 1].isFillerWord
           /\ \A i \in 1..Len(segments) : Len(segments[i].text) > 0

\* a text that starts outside a filler and has two kept matches next to each
\* other with nothing between them
C20_Witness ==
    /\ filOut # << >>
    /\ LET segments == filOut[1].highlightedText
       IN /\ Len(segments) >= 3
          /\ ~segments[1].isFillerWord
          /\ \E i \in 2..(Len(segments) - 1) :
                 segments[i].isFillerWord /\ segments[i + 1].isFillerWord
          /\ filOut[1].totalFillerWords >= 2

\* C21: when the text has more than N sentences, both normalised values of
\* every sentence lie in [0, 1] and the summary is made of N sentences such
\* that no omitted sentence has a higher combined score (0.55 x normalised
\* frequency score + 0.45 x normalised centrality) than a selected one, nor
\* an equal score and an earlier position.
C21_TopByCombinedScore ==
    (sumOut # << >> /\ Len(tokenizeSentences(sumText)) > sumTarget) =>
        LET sentences == tokenizeSentences(sumText)
            normFreq == normFreqOf(freqScoresOf(sentences, calculateWordFrequency(sumText)))
            normCentral == normCentralOf(centralityOf(
                               Tup([ i \in 1..Len(sentences) |-> sentenceToVector(sentences[i]) ])))
            combined == Tup([ i \in 1..Len(sentences) |-> weighted(normFreq[i], normCentral[i]) ])
        IN /\ \A i \in 1..Len(sentences) :
                  normFreq[i] \in 0..10000 /\ normCentral[i] \in 0..10000
           /\ \E S \in SUBSET (1..Len(sentences)) :
                  /\ Cardinality(S) = sumTarget
                  /\ sumOut[1].sentences = Tup([ k \in 1..sumTarget |-> sentences[Nth(S, k)] ])
                  /\ \A i \in S : \A j \in (1..Len(sentences)) \ S :
                         \/ combined[j] < combined[i]
                         \/ (combined[j] = combined[i] /\ i < j)


\* a word that starts with an upper-case letter
Capitalized(word) == word # "" /\ Ch(word, 1) \in CharsOf(UpperLetters)

\* the maximal runs << first, last >> of capitalised words among the words
CapitalizedRuns(words) ==
    { r \in (1..Len(words)) \X (1..Len(words)) :
        /\ r[1] <= r[2]
        /\ \A k \in r[1]..r[2] : Capitalized(words[k])
        /\ (r[1] = 1 \/ ~Capitalized(words[r[1] - 1]))
        /\ (r[2] = Len(words) \/ ~Capitalized(words[r[2] + 1])) }

\* the runs of at least two words and four characters, joined, in text order
EntityRuns(words) ==
    LET runs == { r \in CapitalizedRuns(words) :
                    /\ r[2] - r[1] + 1 >= 2
                    /\ Len(join(SubSeq(words, r[1], r[2]), " ")) >= 4 }
        rank == Fn([ r \in runs |-> Cardinality({ t \in runs : t[1] < r[1] }) + 1 ])
    IN Tup([ k \in 1..Cardinality(runs) |->
               LET r == CHOOSE t \in runs : rank[t] = k
               IN join(SubSeq(words, r[1], r[2]), " ") ])

\* C22: the entities of a text are its maximal runs of at least 2 consecutive
\* capitalised words with at least 4 characters, wherever the run stands (at
\* the end of the text too), without duplicates, the first 3 of them.
C22_EntityRuns ==
    tagOut # << >> =>
        LET pieces == splitWhitespace(tagText)
            words == Tup([ k \in 1..Len(pieces) |-> keepWordChars(pieces[k]) ])
        IN extractEntities(tagText) = sliceFirst(addAll(<< >>, EntityRuns(words)), 3)


\* the texts of a note that semanticSearch compares with the query
SearchedTexts(note) ==
    (IF note.title # "" THEN { note.title } ELSE {})
        \cup { note.transcription } \cup Range(note.tags)

\* none of the note's texts contains a token of the query or an expansion of it
Unrelated(note, tokens) ==
    \A i \in 1..Len(tokens) :
        \A e \in Range(getSemanticExpansions(tokens[i]).value) :
            \A text \in SearchedTexts(note) : ~includes(toLowerCase(text), e)

\* C23: with the default threshold 0.3, a note of which no title,
\* transcription or tag contains a query token or one of its semantic
\* expansions has similarity 0 everywhere and is not among the results.
C23_UnrelatedNoteNotReturned ==
    (ssOut # << >> /\ ssThreshold = 30) =>
        (ssOut[1].error = None =>
            LET tokens == tokenizeQuery(ssQuery)
            IN \A n \in 1..Len(ssNotes) :
                   Unrelated(ssNotes[n], tokens) =>
                       /\ SimilaritiesOf(ssNotes[n], tokens) \subseteq { 0 }
                       /\ Count(NotesOf(ssOut[1].value), ssNotes[n]) = 0)


(***************************************************************************)
(* Background upload queue (src/unnamed/part_003, src/unnamed/part_001)    *)
(*                                                                         *)
(* The queue is one value in AsyncStorage.  Every function reads it with   *)
(* await getUploadQueue(), changes its own copy and writes the copy back   *)
(* with await AsyncStorage.setItem: the read and the write are separate    *)
(* steps, and steps of another call can come between them.  Two calls are  *)
(* in progress at most: one queueAudioForUpload (started by the recorder   *)
(* screen) and one processUploadQueue or resumeFailedUploads.              *)
(***************************************************************************)
MaxTasks == 2

maxRetries == 3

\* the task queueAudioForUpload creates; generateId gives every task its own id
newUploadTask(id) == [ id |-> id, retries |-> 0, status |-> "pending" ]

TaskIds(queue) == { queue[k].id : k \in 1..Len(queue) }

\* the queue updateUploadStatus writes back: the task with the id has the new
\* status and, for 'uploading', one more retry
withStatus(queue, uploadId, status) ==
    Tup([ k \in 1..Len(queue) |->
            IF queue[k].id = uploadId /\ \A j \in 1..(k - 1) : queue[j].id # uploadId
            THEN [ queue[k] EXCEPT !.status = status,
                                   !.retries = IF status = "uploading" THEN @ + 1 ELSE @ ]
            ELSE queue[k] ])

\* queue.filter(t => t.id !== uploadId)
withoutTask(queue, uploadId) ==
    filterAt(queue, { k \in 1..Len(queue) : queue[k].id # uploadId })

\* the stalled tasks of resumeFailedUploads
stalledTasks(queue) ==
    filterAt(queue, { k \in 1..Len(queue) :
                        \/ queue[k].status = "uploading"
                        \/ (queue[k].status = "pending" /\ queue[k].retries > 0) })

getUploadStats(queue) ==
    [ pending |-> Cardinality({ k \in 1..Len(queue) : queue[k].status = "pending" }),
      uploading |-> Cardinality({ k \in 1..Len(queue) : queue[k].status = "uploading" }),
      completed |-> Cardinality({ k \in 1..Len(queue) : queue[k].status = "completed" }),
      failed |-> Cardinality({ k \in 1..Len(queue) : queue[k].status = "failed" }),
      total |-> Len(queue) ]

upOthers ==
    << sumVars, senVars, filVars, expVars, srVars, ssVars, wcVars, tagVars, vocVars,
       repVars, foldVars, idxVars >>

\* queueAudioForUpload up to the end of await getUploadQueue(): the task is
\* pushed on the copy that was read
QueueAudioForUploadRead ==
    /\ upProducer.pc = "idle"
    /\ upQueued < MaxTasks
    /\ upQueued' = upQueued + 1
    /\ upProducer' = [ pc |-> "write", id |-> upQueued + 1,
                       queue |-> Append(upStore, newUploadTask(upQueued + 1)) ]
    /\ UNCHANGED << upStore, upWorker, upAttempts, upDone, upOthers >>

\* await AsyncStorage.setItem(UPLOAD_QUEUE_KEY, JSON.stringify(queue))
QueueAudioForUploadWrite ==
    /\ upProducer.pc = "write"
    /\ upStore' = upProducer.queue
    /\ upProducer' = [ pc |-> "idle" ]
    /\ UNCHANGED << upQueued, upWorker, upAttempts, upDone, upOthers >>

\* the worker at the head of the for loop of processUploadQueue
atLoop(snapshot, index) == [ pc |-> "loop", snapshot |-> snapshot, index |-> index ]

\* the worker inside updateUploadStatus(uploadId, status), before its read
atUpdate(w, status) ==
    [ pc |-> "update", snapshot |-> w.snapshot, index |-> w.index, status |-> status,
      io |-> "read", queue |-> << >> ]

\* processUploadQueue up to the end of await getUploadQueue()
ProcessUploadQueueStart ==
    /\ upWorker.pc \in { "idle", "process" }
    /\ upWorker' = IF Len(upStore) = 0 THEN [ pc |-> "idle" ] ELSE atLoop(upStore, 1)
    /\ UNCHANGED << upStore, upQueued, upProducer, upAttempts, upDone, upOthers >>

\* the head of the loop body: a task that is completed or has used its
\* retries is skipped (the status 'failed' is set on the task of the copy
\* read at the start), any other task goes on to updateUploadStatus
ProcessNextTask ==
    /\ upWorker.pc = "loop"
    /\ LET snapshot == upWorker.snapshot
           index == upWorker.index
       IN upWorker' =
              IF index > Len(snapshot) THEN [ pc |-> "idle" ]
              ELSE IF snapshot[index].status = "completed"
                      \/ snapshot[index].retries >= maxRetries
              THEN atLoop(IF snapshot[index].retries >= maxRetries
                          THEN [ snapshot EXCEPT ![index].status = "failed" ]
                          ELSE snapshot,
                          index + 1)
              ELSE atUpdate(upWorker, "uploading")
    /\ UNCHANGED << upStore, upQueued, upProducer, upAttempts, upDone, upOthers >>

\* where the worker goes on after updateUploadStatus returns
afterUpdate(w) ==
    IF w.status = "uploading"
    THEN [ pc |-> "upload", snapshot |-> w.snapshot, index |-> w.index ]
    ELSE IF w.status = "completed"
    THEN [ pc |-> "remove", snapshot |-> w.snapshot, index |-> w.index,
           io |-> "read", queue |-> << >> ]
    ELSE [ pc |-> "resume", snapshot |-> w.snapshot, index |-> w.index + 1 ]

\* updateUploadStatus: const queue = await getUploadQueue(), and the change of
\* the copy; without the task nothing is written
UpdateUploadStatusRead ==
    /\ upWorker.pc = "update"
    /\ upWorker.io = "read"
    /\ LET uploadId == upWorker.snapshot[upWorker.index].id
       IN upWorker' =
              IF uploadId \in TaskIds(upStore)
              THEN [ upWorker EXCEPT !.io = "write",
                                     !.queue = withStatus(upStore, uploadId, upWorker.status) ]
              ELSE afterUpdate(upWorker)
    /\ UNCHANGED << upStore, upQueued, upProducer, upAttempts, upDone, upOthers >>

\* updateUploadStatus: await AsyncStorage.setItem(...)
UpdateUploadStatusWrite ==
    /\ upWorker.pc = "update"
    /\ upWorker.io = "write"
    /\ upStore' = upWorker.queue
    /\ upWorker' = afterUpdate(upWorker)
    /\ UNCHANGED << upQueued, upProducer, upAttempts, upDone, upOthers >>

\* const success = await uploadAudioFile(task): true when the file exists (the
\* metadata it records are kept under another key)
UploadAudioFile ==
    /\ upWorker.pc = "upload"
    /\ LET id == upWorker.snapshot[upWorker.index].id
       IN /\ upAttempts' = (id :> (IF id \in DOMAIN upAttempts THEN upAttempts[id] + 1 ELSE 1))
                               @@ upAttempts
          /\ \E success \in BOOLEAN :
                 IF success
                 THEN /\ upDone' = upDone \cup { id }
                      /\ upWorker' = atUpdate(upWorker, "completed")
                 ELSE /\ upDone' = upDone
                      /\ upWorker' = atLoop(upWorker.snapshot, upWorker.index + 1)
    /\ UNCHANGED << upStore, upQueued, upProducer, upOthers >>

\* removeFromQueue: const queue = await getUploadQueue() and the filter
RemoveFromQueueRead ==
    /\ upWorker.pc = "remove"
    /\ upWorker.io = "read"
    /\ upWorker' = [ upWorker EXCEPT
                       !.io = "write",
                       !.queue = withoutTask(upStore, upWorker.snapshot[upWorker.index].id) ]
    /\ UNCHANGED << upStore, upQueued, upProducer, upAttempts, upDone, upOthers >>

\* removeFromQueue: await AsyncStorage.setItem(...)
RemoveFromQueueWrite ==
    /\ upWorker.pc = "remove"
    /\ upWorker.io = "write"
    /\ upStore' = upWorker.queue
    /\ upWorker' = atLoop(upWorker.snapshot, upWorker.index + 1)
    /\ UNCHANGED << upQueued, upProducer, upAttempts, upDone, upOthers >>

\* resumeFailedUploads up to the filter of the queue it read
ResumeFailedUploadsStart ==
    /\ upWorker.pc = "idle"
    /\ upWorker' = [ pc |-> "resume", snapshot |-> stalledTasks(upStore), index |-> 1 ]
    /\ UNCHANGED << upStore, upQueued, upProducer, upAttempts, upDone, upOthers >>

\* the for loop over the stalled tasks, then the call of processUploadQueue
ResumeNextTask ==
    /\ upWorker.pc = "resume"
    /\ upWorker' = IF upWorker.index > Len(upWorker.snapshot) THEN [ pc |-> "process" ]
                   ELSE atUpdate(upWorker, "pending")
    /\ UNCHANGED << upStore, upQueued, upProducer, upAttempts, upDone, upOthers >>

WorkerNext ==
    \/ ProcessUploadQueueStart
    \/ ProcessNextTask
    \/ UpdateUploadStatusRead
    \/ UpdateUploadStatusWrite
    \/ UploadAudioFile
    \/ RemoveFromQueueRead
    \/ RemoveFromQueueWrite
    \/ ResumeFailedUploadsStart
    \/ ResumeNextTask

UpInit ==
    /\ UpIdle
    /\ SumIdle
    /\ SenIdle
    /\ FilIdle
    /\ ExpIdle
    /\ SrIdle
    /\ SsIdle
    /\ WcIdle
    /\ TagIdle
    /\ VocIdle
    /\ RepIdle
    /\ FoldIdle
    /\ IdxIdle

UpNext ==
    \/ QueueAudioForUploadRead
    \/ QueueAudioForUploadWrite
    \/ WorkerNext

UpSpec == UpInit /\ [][UpNext]_vars

\* C24: a task that queueAudioForUpload has stored stays in the stored queue
\* until its own upload has completed, whatever steps of processUploadQueue
\* come between the steps of queueAudioForUpload.
C24_NoTaskLost ==
    \A id \in 1..upQueued :
        \/ (upProducer.pc = "write" /\ upProducer.id = id)
        \/ id \in TaskIds(upStore)
        \/ id \in upDone


(***************************************************************************)
(* Runs of processUploadQueue and resumeFailedUploads over a queue that    *)
(* holds its tasks from the start, with no queueAudioForUpload in between. *)
(***************************************************************************)
RetryInit ==
    /\ \E n \in 1..MaxTasks :
           /\ upStore = Tup([ id \in 1..n |-> newUploadTask(id) ])
           /\ upQueued = n
    /\ upProducer = [ pc |-> "idle" ]
    /\ upWorker = [ pc |-> "idle" ]
    /\ upAttempts = << >>
    /\ upDone = {}
    /\ SumIdle
    /\ SenIdle
    /\ FilIdle
    /\ ExpIdle
    /\ SrIdle
    /\ SsIdle
    /\ WcIdle
    /\ TagIdle
    /\ VocIdle
    /\ RepIdle
    /\ FoldIdle
    /\ IdxIdle

RetryNext == WorkerNext

RetrySpec == RetryInit /\ [][RetryNext]_vars

\* the step in which a run of processUploadQueue returns after its loop
RunReturns == upWorker.pc = "loop" /\ upWorker'.pc = "idle"

\* the tasks that had used their retries when the run read the queue
ExhaustedAtStart ==
    { upWorker.snapshot[k].id :
        k \in { j \in 1..Len(upWorker.snapshot) : upWorker.snapshot[j].retries >= maxRetries } }

\* C25: over runs of processUploadQueue and calls of resumeFailedUploads an
\* upload is tried at most maxRetries times, and a run that finds a task with
\* its retries used leaves the task with status 'failed' in the stored queue,
\* where getUploadStats counts it as failed.
C25_RetriesEndFailed ==
    /\ [](\A id \in DOMAIN upAttempts : upAttempts[id] <= maxRetries)
    /\ [][RunReturns =>
            /\ \A id \in ExhaustedAtStart :
                   \E k \in 1..Len(upStore') :
                       upStore'[k].id = id /\ upStore'[k].status = "failed"
            /\ getUploadStats(upStore').failed >= Cardinality(ExhaustedAtStart)]_vars


(***************************************************************************)
(* Smart folders (src/utils/smartFolders.ts)                               *)
(*                                                                         *)
(* A note is [id, tags, createdAt]; a secondary key that is null is None.  *)
(***************************************************************************)
TAG_COLORS ==
    << <<"meeting", "#3B82F6">>, <<"finance", "#10B981">>, <<"marketing", "#F59E0B">>,
       <<"project", "#8B5CF6">>, <<"client", "#EC4899">>, <<"research", "#06B6D4">>,
       <<"sales", "#EF4444">>, <<"hr", "#14B8A6">>, <<"technology", "#6366F1">>,
       <<"important", "#DC2626">> >>

DefaultTagColor == "#64748B"

\* Object.keys(TAG_COLORS)
TagColorKeys == { TAG_COLORS[k][1] : k \in 1..Len(TAG_COLORS) }

\* for a tag that is a key of TAG_COLORS in lower case (a primary tag)
getColorForTag(tag) ==
    IF toLowerCase(tag) \in TagColorKeys
    THEN (CHOOSE e \in Range(TAG_COLORS) : e[1] = toLowerCase(tag))[2]
    ELSE DefaultTagColor

\* the characters of tags in the order of their UTF-16 code units
CodeUnitOrder == " #" \o Digits \o UpperLetters \o "_" \o LowerLetters

codeUnit(c) == CHOOSE i \in 1..Len(CodeUnitOrder) : Ch(CodeUnitOrder, i) = c

\* a < b as Array.prototype.sort() without a comparator orders strings
stringBefore(a, b) ==
    \E i \in 1..(Len(a) + 1) :
        /\ i <= Len(b)
        /\ SubSeq(a, 1, i - 1) = SubSeq(b, 1, i - 1)
        /\ (i = Len(a) + 1 \/ codeUnit(Ch(a, i)) < codeUnit(Ch(b, i)))

\* Array.from(tags).sort() for a set of strings
sortedStrings(S) ==
    LET rank == Fn([ t \in S |-> Cardinality({ u \in S : stringBefore(u, t) }) + 1 ])
    IN Tup([ k \in 1..Cardinality(S) |-> CHOOSE t \in S : rank[t] = k ])

\* the first tags, as written, of the notes whose first tag in lower case is
\* a key of TAG_COLORS
getPrimaryTags(notes) ==
    sortedStrings({ notes[k].tags[1] :
                      k \in { j \in 1..Len(notes) :
                                /\ Len(notes[j].tags) > 0
                                /\ toLowerCase(notes[j].tags[1]) \in TagColorKeys } })

groupByPrimaryTag(notes, primaryTag) ==
    filterAt(notes, { k \in 1..Len(notes) :
                        /\ Len(notes[k].tags) > 0
                        /\ toLowerCase(notes[k].tags[1]) = toLowerCase(primaryTag) })

\* tag[0] === tag[0].toUpperCase() || /^\d+\/\d+/.test(tag), for a tag that is
\* not empty: a tag that starts with a digit passes the first test
isSecondaryKey(tag) == ~(Ch(tag, 1) \in CharsOf(LowerLetters))

extractSecondaryKey(note) ==
    IF Len(note.tags) < 2 THEN None
    ELSE LET at == { k \in 1..Len(note.tags) :
                       /\ ~(toLowerCase(note.tags[k]) \in TagColorKeys)
                       /\ isSecondaryKey(note.tags[k]) }
         IN IF at = {} THEN None ELSE note.tags[Min(at)]

\* replace(/\s+/g, '_')
underscored(s) == join(splitWhitespace(s), "_")

noteIdsOf(notes) == Tup([ k \in 1..Len(notes) |-> notes[k].id ])

lastModifiedOf(notes) == Max({ notes[k].createdAt : k \in 1..Len(notes) })

\* String(n) for n >= 0
RECURSIVE numeral(_)
numeral(n) ==
    IF n < 10 THEN Ch(Digits, n + 1) ELSE numeral(n \div 10) \o Ch(Digits, (n % 10) + 1)

\* `${n} note${n !== 1 ? 's' : ''} tagged "${tag}"`, or with "${key}"
descriptionOf(n, how, tag) ==
    numeral(n) \o " note" \o (IF n # 1 THEN "s" ELSE "") \o " " \o how \o " \"" \o tag \o "\""

\* the keys of the Map secondaryGroups in insertion order
secondaryKeys(notesInTag) ==
    addAll(<< >>, Tup([ k \in 1..Len(notesInTag) |-> extractSecondaryKey(notesInTag[k]) ]))

subFolderOf(folderId, primaryTag, secondaryKey, subNotes, now) ==
    [ id |-> folderId \o "_" \o underscored(toLowerCase(secondaryKey)),
      name |-> secondaryKey,
      primaryTag |-> primaryTag,
      noteIds |-> noteIdsOf(subNotes),
      notesCount |-> Len(subNotes),
      color |-> getColorForTag(primaryTag),
      createdAt |-> now,
      lastModified |-> lastModifiedOf(subNotes),
      description |-> descriptionOf(Len(subNotes), "with", secondaryKey),
      subFolders |-> << >> ]

MinNotesForSubFolders == 3
MinSubFolderNotes == 2

subFoldersOf(folderId, primaryTag, notesInTag, now) ==
    LET keys == secondaryKeys(notesInTag)
        notesOfKey == Fn([ key \in Range(keys) |->
                            filterAt(notesInTag, { k \in 1..Len(notesInTag) :
                                                     extractSecondaryKey(notesInTag[k]) = key }) ])
        made == filterAt(keys, { k \in 1..Len(keys) :
                                   /\ keys[k] # None
                                   /\ Len(notesOfKey[keys[k]]) >= MinSubFolderNotes })
    IN IF Len(keys) > 1 /\ Len(notesInTag) >= MinNotesForSubFolders
       THEN Tup([ k \in 1..Len(made) |->
                    subFolderOf(folderId, primaryTag, made[k], notesOfKey[made[k]], now) ])
       ELSE << >>

mainFolderOf(primaryTag, notesInTag, now) ==
    [ id |-> underscored(toLowerCase(primaryTag)),
      name |-> primaryTag,
      primaryTag |-> primaryTag,
      noteIds |-> noteIdsOf(notesInTag),
      notesCount |-> Len(notesInTag),
      color |-> getColorForTag(primaryTag),
      createdAt |-> now,
      lastModified |-> lastModifiedOf(notesInTag),
      description |-> descriptionOf(Len(notesInTag), "tagged", primaryTag),
      subFolders |-> subFoldersOf(underscored(toLowerCase(primaryTag)), primaryTag,
                                  notesInTag, now) ]

\* folders.sort((a, b) => b.notesCount - a.notesCount)
sortByNotesCount(folders) ==
    LET sorted == sortStable(Tup([ i \in 1..Len(folders) |->
                     [ key |-> 0 - folders[i].notesCount, item |-> folders[i] ] ]))
    IN Tup([ i \in 1..Len(sorted) |-> sorted[i].item ])

\* every folder with the key under which it is assigned to folderMap, in the
\* order of the assignments: the sub-folders of a folder, then the folder
RECURSIVE assignedFolders(_)
assignedFolders(folders) ==
    IF folders = << >> THEN << >>
    ELSE Head(folders).subFolders
         \o << Head(folders) >>
         \o assignedFolders(Tail(folders))

\* folderMap: a later assignment to a key replaces the earlier one
folderMapOf(assigned) ==
    Fn([ id \in { assigned[k].id : k \in 1..Len(assigned) } |->
           assigned[Max({ k \in 1..Len(assigned) : assigned[k].id = id })] ])

mainFoldersOf(notes, primaryTags, now) ==
    LET made == filterAt(primaryTags, { k \in 1..Len(primaryTags) :
                                          Len(groupByPrimaryTag(notes, primaryTags[k])) > 0 })
    IN Tup([ k \in 1..Len(made) |->
               mainFolderOf(made[k], groupByPrimaryTag(notes, made[k]), now) ])

foldersResult(notes, folders) ==
    LET processedNoteIds == UNION { Range(folders[k].noteIds) : k \in 1..Len(folders) }
    IN [ folders |-> sortByNotesCount(folders),
         ungrouped |-> noteIdsOf(filterAt(notes, { k \in 1..Len(notes) :
                                                     ~(notes[k].id \in processedNoteIds) })),
         folderMap |-> folderMapOf(assignedFolders(folders)) ]

\* now is the value of Date.now()
createSmartFolders(notes, now) ==
    IF Len(notes) = 0 THEN [ folders |-> << >>, ungrouped |-> << >>, folderMap |-> << >> ]
    ELSE foldersResult(notes, mainFoldersOf(notes, getPrimaryTags(notes), now))

(***************************************************************************)
(* Specification of the folders: up to MaxFoldNotes notes with the ids 1,  *)
(* 2, ... and tag lists of the pool.                                       *)
(***************************************************************************)
MaxFoldNotes == 3

FoldTagLists ==
    { << >>, << "meeting" >>, << "Meeting", "Acme" >>, << "meeting", "Acme", "notes" >>,
      << "idea", "finance" >>, << "finance", "12/05" >> }

FoldNotes ==
    UNION { { Tup([ k \in 1..n |-> [ id |-> k, tags |-> t[k], createdAt |-> 10 + k ] ]) :
                t \in [ 1..n -> FoldTagLists ] } : n \in 0..MaxFoldNotes }

FoldClock == { 1, 2 }

FoldInit ==
    /\ foldNotes \in FoldNotes
    /\ foldOut = << >>
    /\ SumIdle
    /\ SenIdle
    /\ FilIdle
    /\ ExpIdle
    /\ SrIdle
    /\ SsIdle
    /\ WcIdle
    /\ TagIdle
    /\ VocIdle
    /\ RepIdle
    /\ UpIdle
    /\ IdxIdle

CreateSmartFolders ==
    /\ foldOut = << >>
    /\ \E now \in FoldClock : foldOut' = << createSmartFolders(foldNotes, now) >>
    /\ UNCHANGED << foldNotes, sumVars, senVars, filVars, expVars, srVars, ssVars, wcVars,
                    tagVars, vocVars, repVars, upVars, idxVars >>

FoldNext == CreateSmartFolders

FoldSpec == FoldInit /\ [][FoldNext]_vars

\* C26: the top-level folders have pairwise distinct ids, every note id is in
\* the noteIds of at most one of them, and it is in ungrouped exactly when it
\* is in none, whatever the letter case of the primary tags.
C26_FoldersPartitionNotes ==
    foldOut # << >> =>
        LET folders == foldOut[1].folders
            ungrouped == foldOut[1].ungrouped
        IN /\ \A j, k \in 1..Len(folders) : folders[j].id = folders[k].id => j = k
           /\ \A n \in 1..Len(foldNotes) :
                  LET holding == { k \in 1..Len(folders) :
                                     foldNotes[n].id \in Range(folders[k].noteIds) }
                  IN /\ Cardinality(holding) <= 1
                     /\ Count(ungrouped, foldNotes[n].id) = (IF holding = {} THEN 1 ELSE 0)

\* C27: removeFillerWords is idempotent: cleaning the cleaned text of a text
\* gives the cleaned text again.
C27_RemoveFillerWordsIdempotent ==
    filOut # << >> =>
        removeFillerWords(removeFillerWords(filText)) = removeFillerWords(filText)


\* C28: when hasEnoughContentForWordCloud(text, language) is true,
\* generateWordCloud(text, maxWords, language) with maxWords >= 1 returns at
\* least one word.
C28_EnoughContentGivesWords ==
    (wcEnough = << TRUE >> /\ wcOut # << >> /\ wcMax >= 1) => Len(wcOut[1].words) >= 1


(***************************************************************************)
(* The semantic index: buildSemanticIndex and fastSemanticSearch           *)
(***************************************************************************)

\* transcriptionTokens.slice(0, 50)
IndexedTokens == 50

\* array.flat() of a list of lists
RECURSIVE flat(_)
flat(lists) == IF lists = << >> THEN << >> ELSE Head(lists) \o flat(Tail(lists))

\* the tokens of a note that buildSemanticIndex expands, in the order of the
\* three loops: title (when truthy), the first 50 of the transcription, tags
indexedTokens(note) ==
    (IF note.title # "" THEN tokenizeQuery(note.title) ELSE << >>)
    \o sliceFirst(tokenizeQuery(note.transcription), IndexedTokens)
    \o flat(Tup([ t \in 1..Len(note.tags) |-> tokenizeQuery(note.tags[t]) ]))

\* the expansions of each token of a list, one after the other
expansionsOf(tokens) ==
    flat(Tup([ i \in 1..Len(tokens) |-> getSemanticExpansions(tokens[i]).value ]))

\* a result is [error, value].  tokenToNotes maps an expansion to the ids of
\* the notes that produced it, in insertion order; getSemanticExpansions
\* throwing ends the build.
buildSemanticIndex(notes) ==
    LET toks == Tup([ i \in 1..Len(notes) |-> indexedTokens(notes[i]) ])
        exps == Tup([ i \in 1..Len(notes) |-> Range(expansionsOf(toks[i])) ])
        keys == UNION { exps[i] : i \in 1..Len(notes) }
        ids == Tup([ i \in 1..Len(notes) |-> notes[i].id ])
    IN IF \E i \in 1..Len(notes) : Range(toks[i]) \cap OBJECT_PROTOTYPE_KEYS # { }
       THEN [ error |-> "TypeError", value |-> None ]
       ELSE [ error |-> None,
              value |-> [ tokenToNotes |->
                              Fn([ e \in keys |->
                                     addAll(<< >>, filterAt(ids, { i \in 1..Len(notes) :
                                                                     e \in exps[i] })) ]),
                          noteIds |-> addAll(<< >>, ids) ] ]

\* notes.find(n => n.id === noteId): << note >>, or << >> when there is none
findNote(notes, noteId) ==
    IF \E i \in 1..Len(notes) : notes[i].id = noteId
    THEN << notes[Nth({ i \in 1..Len(notes) : notes[i].id = noteId }, 1)] >>
    ELSE << >>

fastSemanticSearch(notes, query, index) ==
    LET tokens == tokenizeQuery(query)
        expansions == expansionsOf(tokens)
        hits == flat(Tup([ k \in 1..Len(expansions) |->
                    IF expansions[k] \in DOMAIN index.tokenToNotes
                    THEN index.tokenToNotes[expansions[k]] ELSE << >> ]))
        matchedNoteIds == addAll(<< >>, hits)
        \* the entries that map to null are filtered out
        found == filterAt(matchedNoteIds, { k \in 1..Len(matchedNoteIds) :
                                              findNote(notes, matchedNoteIds[k]) # << >> })
        matchedNotes == Tup([ k \in 1..Len(found) |->
                    [ note |-> findNote(notes, found[k])[1],
                      relevanceScore |-> [ n |-> Count(hits, found[k]), d |-> Len(tokens) ],
                      matchType |-> "semantic",
                      matchedTerms |-> << >>,
                      explanation |-> "Semantic match (frequency: "
                                      \o numeral(Count(hits, found[k])) \o ")" ] ])
    IN IF Range(tokens) \cap OBJECT_PROTOTYPE_KEYS # { }
       THEN [ error |-> "TypeError", value |-> << >> ]
       ELSE [ error |-> None, value |-> sortByRelevance(matchedNotes) ]

MaxIdxNotes == 2

\* a transcription whose last word is its 51st token
LongTranscription == Repeat("and ", IndexedTokens) \o "zebra"

IdxPool ==
    { [ id |-> "1", title |-> "Budget meetings", transcription |-> "we talked about money",
        tags |-> << "finance" >> ],
      [ id |-> "2", title |-> "", transcription |-> LongTranscription, tags |-> << >> ],
      [ id |-> "3", title |-> "Plan", transcription |-> "zebra crossing",
        tags |-> << "road trip" >> ],
      [ id |-> "4", title |-> "The constructor", transcription |-> "", tags |-> << >> ] }

\* lists of notes with distinct ids
IdxNoteLists ==
    { l \in SeqsUpTo(IdxPool, MaxIdxNotes) :
        \A i, j \in 1..Len(l) : l[i].id = l[j].id => i = j }

IdxQueries == { "zebra", "Budget?", "road", "an", "money plan", "constructor" }

\* the list searched is the list indexed, or the list without its last note
IdxInit ==
    /\ idxNotes \in IdxNoteLists
    /\ idxList \in { idxNotes, sliceFirst(idxNotes, Len(idxNotes) - 1) }
    /\ idxQuery \in IdxQueries
    /\ idxIndex = << >>
    /\ idxOut = << >>
    /\ SumIdle
    /\ SenIdle
    /\ FilIdle
    /\ ExpIdle
    /\ SrIdle
    /\ SsIdle
    /\ WcIdle
    /\ TagIdle
    /\ VocIdle
    /\ RepIdle
    /\ UpIdle
    /\ FoldIdle

idxOthers == << sumVars, senVars, filVars, expVars, srVars, ssVars, wcVars, tagVars,
                vocVars, repVars, upVars, foldVars >>

BuildSemanticIndex ==
    /\ idxIndex = << >>
    /\ idxIndex' = << buildSemanticIndex(idxNotes) >>
    /\ UNCHANGED << idxNotes, idxList, idxQuery, idxOut, idxOthers >>

\* the search runs on the index the build returned
FastSemanticSearch ==
    /\ idxIndex # << >>
    /\ idxIndex[1].error = None
    /\ idxOut = << >>
    /\ idxOut' = << fastSemanticSearch(idxList, idxQuery, idxIndex[1].value) >>
    /\ UNCHANGED << idxNotes, idxList, idxQuery, idxIndex, idxOthers >>

IdxNext == BuildSemanticIndex \/ FastSemanticSearch

IdxSpec == IdxInit /\ [][IdxNext]_vars

\* the notes a search returned
returnedNotes == { idxOut[1].value[k].note : k \in 1..Len(idxOut[1].value) }

\* a token of the query is a word of the title, of a tag or of the
\* transcription of the note
hasQueryToken(note, tokens) ==
    \E t \in Range(tokens) :
        \/ t \in Range(tokenizeQuery(note.title))
        \/ t \in Range(tokenizeQuery(note.transcription))
        \/ \E g \in 1..Len(note.tags) : t \in Range(tokenizeQuery(note.tags[g]))

\* C29: a search through an index freshly built from the same list of notes
\* returns every note that has a query token as a word of its title, of one
\* of its tags or anywhere in its transcription, and every search returns
\* only notes of the list passed to it.
C29_IndexSearchFindsEveryMatch ==
    (idxOut # << >> /\ idxOut[1].error = None) =>
        /\ returnedNotes \subseteq Range(idxList)
        /\ idxList = idxNotes =>
               \A i \in 1..Len(idxList) :
                   hasQueryToken(idxList[i], tokenizeQuery(idxQuery)) =>
                       idxList[i] \in returnedNotes



\* texts in which punctuation alone separates fillers
PctChunks == { "um,uh", " ", "so", "like,", "good. " }

PctInit ==
    /\ filText \in Concats(PctChunks, MaxFilChunks)
    /\ filOut = << >>
    /\ SumIdle
    /\ SenIdle
    /\ ExpIdle
    /\ SrIdle
    /\ SsIdle
    /\ WcIdle
    /\ TagIdle
    /\ VocIdle
    /\ RepIdle
    /\ UpIdle
    /\ FoldIdle
    /\ IdxIdle

PctNext == AnalyzeFillerWords

PctSpec == PctInit /\ [][PctNext]_vars

\* C30: the filler percentage lies within [0, 100] (kept in hundredths of a
\* percent): the kept filler matches are never more than the words counted
\* by text.split(/\s+/), the denominator.
C30_PercentageWithinRange ==
    filOut # << >> =>
        /\ filOut[1].fillerWordPercentage >= 0
        /\ filOut[1].fillerWordPercentage <= 100 * 100
        /\ filOut[1].totalFillerWords <= Len(splitWhitespace(filText))

====
